---- MODULE Spec2Model ----
(***************************************************************************)
(* A state-machine model of the WebSocket JSON-RPC client of ether/ethrpc.py *)
(* (class WSRPC): the request-id generator, the class-level _inflight and    *)
(* _subscriptions dictionaries, the demultiplexer task _handle_incoming, the *)
(* keepalive task _ping, close(), get_pending() and from_pending(), together *)
(* with the node at the other end of each connection.                        *)
(*                                                                         *)
(* asyncio is cooperative: a coroutine runs without interruption from one   *)
(* suspending await to the next, so every action below is one such stretch. *)
(***************************************************************************)
EXTENDS Integers, Sequences, FiniteSets, TLC

\* ---------------------------------------------------------------- bounds
MaxSess == 2        \* WSRPC objects: 1 is made by the caller, s+1 by from_pending
MaxCalls == 2       \* _RPC / _subscribe / unsubscribe calls made by the caller
MaxEvents == 2      \* subscription notifications the node sends in all

Sess == 1..MaxSess

\* ------------------------------------------------------- python dictionaries
\* A dict is kept as the sequence of its items in insertion order, as CPython does.
Keys(d) == {d[i].k : i \in 1..Len(d)}

Has(d, k) == \E i \in 1..Len(d) : d[i].k = k

Get(d, k) == d[CHOOSE i \in 1..Len(d) : d[i].k = k].v

Put(d, k, v) ==
  IF Has(d, k)
  THEN [i \in 1..Len(d) |-> IF d[i].k = k THEN [k |-> k, v |-> v] ELSE d[i]]
  ELSE Append(d, [k |-> k, v |-> v])

Pop(d, k) == SelectSeq(d, LAMBDA e : e.k # k)

Values(d) == [i \in 1..Len(d) |-> d[i].v]

MaxOf(S) == CHOOSE m \in S : \A x \in S : x <= m

\* ------------------------------------------------------------------ state
VARIABLES
  made,          \* made[s]: the WSRPC object s exists
  hasWs,         \* hasattr(self, '_ws')
  connected,     \* self.connected
  ids,           \* the next value of the generator self._ids
  wsOpen,        \* the connection self._ws is open
  wire,          \* frames the node has sent on the connection, not yet read by recv()
  pingTask,      \* self._ping_task: "none", "running", "stopped", "cancelled"
  handleTask,    \* self._handle_task: "none", "running", "closing" (in close() at 292),
                 \*   "stopped" (returned at 290), "cancelled" (CancelledError caught
                 \*   at 294), "aborted" (CancelledError left the coroutine from
                 \*   292), "crashed" (another exception left it)
  callerClose,   \* the caller's latest close(): "idle", "wsclose", "returned", "raised"
  wsCloses,      \* times self._ws.close() was called
  inflight,      \* WSRPC._inflight, one dict for the class
  subscriptions, \* WSRPC._subscriptions, one dict for the class
  futs,          \* the futures, by the index of the call that created them
  queues,        \* the asyncio queues, by the index of the call that created them
  calls,         \* the _RPC coroutines started so far, in order
  userCalls,     \* how many of them the caller started
  nodeReq,       \* requests the node has received on a connection and not answered
  nodeSubs,      \* subscription ids the node serves on a connection
  nodeSeq,       \* nodeSeq[k]: notifications sent under the k-th subscription id
  pendingOut,    \* what get_pending() gave on a session when it was handed over
  httpConnected, \* HTTPRPC: self.connected
  httpSession,   \* HTTPRPC: self._session: "none", "open", "closed"
  httpOpens,     \* aiohttp sessions made by open()
  httpShut,      \* aiohttp sessions whose connections were shut by close()
  httpIds,       \* HTTPRPC: the next value of self._ids
  httpCalls,     \* HTTPRPC: the _RPC coroutines started, in order
  httpClose,     \* HTTPRPC: how the caller's latest close() ended
  rlpItem,       \* rlp: the item given to encode()
  rlpRaw,        \* rlp: the byte string given to decode()
  rlpOut,        \* rlp: the latest call and what it returned
  tx,            \* transactions: the transaction object the caller holds
  txOut,         \* transactions: the latest call on it and how it ended
  lastSig,       \* crypto: the digest and key of the latest signature made, and it
  rlpFrames,     \* rlp: the decode_list() calls that are running, innermost last
  abiIn,         \* abi: the type list and the argument list given to encode_many()
  abiOut         \* abi: the latest call and how it ended

vars == <<made, hasWs, connected, ids, wsOpen, wire, pingTask, handleTask,
          callerClose, wsCloses, inflight, subscriptions,
          futs, queues, calls, userCalls, nodeReq, nodeSubs, nodeSeq, pendingOut,
          httpConnected, httpSession, httpOpens, httpShut, httpIds, httpCalls,
          httpClose, rlpItem, rlpRaw, rlpOut, tx, txOut, lastSig, rlpFrames,
          abiIn, abiOut>>

rlpVars == <<rlpItem, rlpRaw, rlpOut, rlpFrames>>

txVars == <<tx, txOut, lastSig>>

abiVars == <<abiIn, abiOut>>

pureVars == <<rlpVars, txVars, abiVars>>

httpVars == <<httpConnected, httpSession, httpOpens, httpShut, httpIds, httpCalls,
              httpClose>>

wsVars == <<made, hasWs, connected, ids, wsOpen, wire, pingTask, handleTask,
            callerClose, wsCloses, inflight, subscriptions, futs, queues, calls,
            userCalls, nodeReq, nodeSubs, nodeSeq, pendingOut>>

sessVars == <<made, hasWs, connected, ids, wsOpen, pingTask, handleTask,
              callerClose, wsCloses>>

nodeVars == <<nodeReq, nodeSubs, nodeSeq>>

\* ---------------------------------------------------------------- values
Absent == <<>>

PendingFut == [st |-> "pending", val |-> Absent]

Done(f) == f.st # "pending"

\* json payloads: keys is the set of keys present in the object
ResultPayload(id, res) ==
  [keys |-> {"id", "result"}, id |-> id, error |-> Absent, result |-> res, sub |-> Absent]

ErrorPayload(id, err) ==
  [keys |-> {"id", "error"}, id |-> id, error |-> err, result |-> Absent, sub |-> Absent]

NotifyPayload(sub, res) ==
  [keys |-> {"params"}, id |-> 0, error |-> Absent, result |-> res, sub |-> sub]

NoPending == [st |-> "none", next |-> 0, pending |-> <<>>, subs |-> <<>>]

\* no call made yet
NoCall == [op |-> "none", st |-> "none", val |-> Absent]

\* no session and no client has been constructed or used
InitRPC ==
  /\ made = [s \in Sess |-> s = 1]
  /\ hasWs = [s \in Sess |-> FALSE]
  /\ connected = [s \in Sess |-> FALSE]
  /\ ids = [s \in Sess |-> 0]
  /\ wsOpen = [s \in Sess |-> FALSE]
  /\ wire = [s \in Sess |-> <<>>]
  /\ pingTask = [s \in Sess |-> "none"]
  /\ handleTask = [s \in Sess |-> "none"]
  /\ callerClose = [s \in Sess |-> "idle"]
  /\ wsCloses = [s \in Sess |-> 0]
  /\ inflight = <<>>
  /\ subscriptions = <<>>
  /\ futs = <<>>
  /\ queues = <<>>
  /\ calls = <<>>
  /\ userCalls = 0
  /\ nodeReq = [s \in Sess |-> {}]
  /\ nodeSubs = [s \in Sess |-> {}]
  /\ nodeSeq = <<>>
  /\ pendingOut = [s \in Sess |-> NoPending]
  /\ httpConnected = FALSE
  /\ httpSession = "none"
  /\ httpOpens = 0
  /\ httpShut = 0
  /\ httpIds = 0
  /\ httpCalls = <<>>
  /\ httpClose = "idle"

\* the codec modules hold no state of their own
InitRLPIdle == rlpItem = Absent /\ rlpRaw = Absent /\ rlpOut = NoCall /\ rlpFrames = <<>>

InitTxIdle == tx = Absent /\ txOut = NoCall /\ lastSig = Absent

InitAbiIdle == abiIn = Absent /\ abiOut = NoCall

Init == InitRPC /\ InitRLPIdle /\ InitTxIdle /\ InitAbiIdle

\* ------------------------------------------------- WSRPC.open (262-266)
\* The caller opens the session it constructed: _id defaults to 0 (line 75).
Open(s) ==
  /\ made[s] /\ ~hasWs[s]
  /\ hasWs' = [hasWs EXCEPT ![s] = TRUE]
  /\ wsOpen' = [wsOpen EXCEPT ![s] = TRUE]
  /\ connected' = [connected EXCEPT ![s] = TRUE]
  /\ pingTask' = [pingTask EXCEPT ![s] = "running"]
  /\ handleTask' = [handleTask EXCEPT ![s] = "running"]
  /\ UNCHANGED <<pureVars, httpVars, made, ids, wire, callerClose, wsCloses,
                 inflight, subscriptions, futs, queues, calls, userCalls,
                 nodeVars, pendingOut>>

\* ------------------------------------------------- WSRPC._RPC (376-413)
\* The coroutine a call to _RPC starts, up to its first suspension: the id is
\* drawn, the request registered and the frame written in one stretch.
\* fut0 = 0 stands for fut=None, q0 = 0 for queue=None.
SendPc(s) ==
  IF wsOpen[s] THEN "await"
  ELSE IF connected[s] THEN "closing"   \* await self.close() at line 408
  ELSE "raised"                         \* RuntimeError at line 409

NewCall(s, n, id, kind, method, params, fut0, q0, pc) ==
  [sess |-> s, id |-> id, kind |-> kind, method |-> method, params |-> params,
   fut |-> IF fut0 = 0 THEN n ELSE fut0,
   queue |-> IF kind = "subscribe" THEN (IF q0 = 0 THEN n ELSE q0) ELSE 0,
   pc |-> pc]

Request(c) == [method |-> c.method, params |-> c.params, fut |-> c.fut]

Frame(c) == [id |-> c.id, method |-> c.method, params |-> c.params]

UnusedFut == [st |-> "unused", val |-> Absent]

StartCall(s, kind, method, params) ==
  LET n == Len(calls) + 1
      c == NewCall(s, n, ids[s], kind, method, params, 0, 0, SendPc(s))
  IN /\ ids' = [ids EXCEPT ![s] = @ + 1]
     /\ calls' = Append(calls, c)
     /\ futs' = Append(futs, PendingFut)
     /\ queues' = Append(queues, <<>>)
     /\ inflight' = Put(inflight, c.id, Request(c))
     /\ nodeReq' = IF wsOpen[s] THEN [nodeReq EXCEPT ![s] = @ \cup {Frame(c)}]
                   ELSE nodeReq
     /\ wsCloses' = IF c.pc = "closing" THEN [wsCloses EXCEPT ![s] = @ + 1]
                    ELSE wsCloses
     /\ userCalls' = userCalls + 1
     /\ UNCHANGED <<pureVars, httpVars, made, hasWs, connected, wsOpen, wire, pingTask, handleTask,
                    callerClose, subscriptions, nodeSubs,
                    nodeSeq, pendingOut>>

\* The caller uses a session only while it is marked connected.
CallRPC(s) ==
  /\ made[s] /\ connected[s] /\ userCalls < MaxCalls
  /\ StartCall(s, "rpc", "eth_call", <<userCalls>>)

\* WSRPC._subscribe (415-436) up to its await of _RPC
CallSubscribe(s) ==
  /\ made[s] /\ connected[s] /\ userCalls < MaxCalls
  /\ StartCall(s, "subscribe", "eth_subscribe", <<userCalls>>)

\* WSRPC.unsubscribe (438-444) up to its await of _RPC, for one id it was given
CallUnsubscribe(s, sub) ==
  /\ made[s] /\ connected[s] /\ userCalls < MaxCalls
  /\ Has(subscriptions, sub)
  /\ StartCall(s, "unsubscribe", "eth_unsubscribe", sub)

\* The rest of _subscribe (432-436) and of unsubscribe (442-444), once the
\* awaited future is done.
Resume(n) ==
  LET c == calls[n]
      f == futs[c.fut]
  IN /\ c.pc = "await" /\ c.kind \in {"subscribe", "unsubscribe"} /\ Done(f)
     /\ IF f.st = "exception"
        THEN /\ calls' = [calls EXCEPT ![n].pc = "failed"]
             /\ UNCHANGED subscriptions
        ELSE IF c.kind = "subscribe"
        THEN /\ subscriptions' = Put(subscriptions, f.val,
                    [method |-> c.method, params |-> c.params, queue |-> c.queue])
             /\ calls' = [calls EXCEPT ![n].pc = "returned"]
        ELSE IF Has(subscriptions, c.params)
        THEN /\ subscriptions' = Pop(subscriptions, c.params)
             /\ calls' = [calls EXCEPT ![n].pc = "returned"]
        ELSE /\ calls' = [calls EXCEPT ![n].pc = "failed"]   \* KeyError
             /\ UNCHANGED subscriptions
     /\ UNCHANGED <<pureVars, httpVars, sessVars, wire, inflight, futs, queues, userCalls, nodeVars,
                    pendingOut>>

\* ---------------------------------------- WSRPC._handle_incoming (268-295)
\* What one pass of the loop body (273-288) does with payload p: the futures
\* and queues afterwards, and whether an exception left the loop (a KeyError
\* of a dictionary lookup, an InvalidStateError of a future already done).
Crash(fs, qs) == [futs |-> fs, queues |-> qs, crashed |-> TRUE]

\* Dispatch with the completion chosen by age, not by id.
DispatchOldest(p, inf, subs, fs, qs) ==
  LET open == {i \in 1..Len(inf) : ~Done(fs[inf[i].v.fut])}
  IN IF "id" \in p.keys /\ open # {}
     THEN LET f == inf[CHOOSE i \in open : \A j \in open : i <= j].v.fut
          IN [futs |-> [fs EXCEPT ![f] =
                          IF "error" \in p.keys THEN [st |-> "exception", val |-> p.error]
                          ELSE [st |-> "result", val |-> p.result]],
              queues |-> qs, crashed |-> FALSE]
     ELSE IF "params" \in p.keys /\ Has(subs, p.sub)
     THEN [futs |-> fs,
           queues |-> [qs EXCEPT ![Get(subs, p.sub).queue] = Append(@, p.result)],
           crashed |-> FALSE]
     ELSE Crash(fs, qs)

\* Dispatch with a notification put at the front of its queue.
DispatchPrepend(p, inf, subs, fs, qs) ==
  IF "id" \in p.keys /\ Has(inf, p.id) /\ ~Done(fs[Get(inf, p.id).fut])
  THEN [futs |-> [fs EXCEPT ![Get(inf, p.id).fut] =
                    IF "error" \in p.keys THEN [st |-> "exception", val |-> p.error]
                    ELSE [st |-> "result", val |-> p.result]],
        queues |-> qs, crashed |-> FALSE]
  ELSE IF "params" \in p.keys /\ Has(subs, p.sub)
  THEN [futs |-> fs,
        queues |-> [qs EXCEPT ![Get(subs, p.sub).queue] = <<p.result>> \o @],
        crashed |-> FALSE]
  ELSE Crash(fs, qs)

\* Dispatch without the branch for error payloads (275-278).
DispatchErrorAsResult(p, inf, subs, fs, qs) ==
  IF "id" \in p.keys /\ Has(inf, p.id) /\ ~Done(fs[Get(inf, p.id).fut])
  THEN [futs |-> [fs EXCEPT ![Get(inf, p.id).fut] =
                    [st |-> "result",
                     val |-> IF "error" \in p.keys THEN p.error ELSE p.result]],
        queues |-> qs, crashed |-> FALSE]
  ELSE IF "params" \in p.keys /\ Has(subs, p.sub)
  THEN [futs |-> fs,
        queues |-> [qs EXCEPT ![Get(subs, p.sub).queue] = Append(@, p.result)],
        crashed |-> FALSE]
  ELSE Crash(fs, qs)

Dispatch(p, inf, subs, fs, qs) ==
  IF "error" \in p.keys
  THEN IF "id" \notin p.keys \/ ~Has(inf, p.id) THEN Crash(fs, qs)
       ELSE LET f == Get(inf, p.id).fut
            IN IF Done(fs[f]) THEN Crash(fs, qs)
               ELSE [futs |-> [fs EXCEPT ![f] = [st |-> "exception", val |-> p.error]],
                     queues |-> qs, crashed |-> FALSE]
  ELSE IF "id" \in p.keys /\ Has(inf, p.id)
  THEN LET f == Get(inf, p.id).fut
       IN IF "result" \notin p.keys \/ Done(fs[f]) THEN Crash(fs, qs)
          ELSE [futs |-> [fs EXCEPT ![f] = [st |-> "result", val |-> p.result]],
                queues |-> qs, crashed |-> FALSE]
  ELSE IF "params" \in p.keys /\ p.sub # Absent
  THEN IF ~Has(subs, p.sub) THEN Crash(fs, qs)
       ELSE LET q == Get(subs, p.sub).queue
            IN [futs |-> fs, queues |-> [qs EXCEPT ![q] = Append(@, p.result)],
                crashed |-> FALSE]
  ELSE [futs |-> fs, queues |-> qs, crashed |-> FALSE]

\* recv() returned a frame: one pass of the loop.
HandleIncoming(s) ==
  /\ handleTask[s] = "running" /\ wire[s] # <<>>
  /\ LET d == Dispatch(Head(wire[s]), inflight, subscriptions, futs, queues)
     IN /\ futs' = d.futs
        /\ queues' = d.queues
        /\ handleTask' = IF d.crashed THEN [handleTask EXCEPT ![s] = "crashed"]
                         ELSE handleTask
  /\ wire' = [wire EXCEPT ![s] = Tail(@)]
  /\ UNCHANGED <<pureVars, httpVars, made, hasWs, connected, ids, wsOpen, pingTask, callerClose,
                 wsCloses, inflight, subscriptions, calls,
                 userCalls, nodeVars, pendingOut>>

\* recv() raised ConnectionClosed (289-292): nothing is left to read on a
\* closed connection. A session still marked connected enters close(), which
\* passes both guards (299, 302) and suspends in self._ws.close().
HandleClosed(s) ==
  /\ handleTask[s] = "running" /\ wire[s] = <<>> /\ ~wsOpen[s]
  /\ handleTask' = [handleTask EXCEPT ![s] = IF connected[s] THEN "closing" ELSE "stopped"]
  /\ wsCloses' = IF connected[s] THEN [wsCloses EXCEPT ![s] = @ + 1] ELSE wsCloses
  /\ UNCHANGED <<pureVars, httpVars, made, hasWs, connected, ids, wsOpen, wire, pingTask, callerClose, inflight, subscriptions, futs, queues, calls,
                 userCalls, nodeVars, pendingOut>>

\* ------------------------------------------------- WSRPC._ping (367-374)
\* ping() raised ConnectionClosed: self.close() at 374 is not awaited, so the
\* coroutine it makes never runs, and the task returns.
PingClosed(s) ==
  /\ pingTask[s] = "running" /\ ~wsOpen[s]
  /\ pingTask' = [pingTask EXCEPT ![s] = "stopped"]
  /\ UNCHANGED <<pureVars, httpVars, made, hasWs, connected, ids, wsOpen, wire, handleTask, callerClose,
                 wsCloses, inflight, subscriptions, futs,
                 queues, calls, userCalls, nodeVars, pendingOut>>

\* ------------------------------------------------- WSRPC.close (297-316)
\* Lines 306-316, run by a coroutine that has come back from self._ws.close().
\* own: the coroutine is the demultiplexer task itself (close() at line 292).
\* Awaiting a task that was just cancelled raises CancelledError in the
\* awaiting coroutine (311); awaiting a finished one gives its result or
\* raises its exception (316). Task.cancel() returns True for a task that is
\* not done, which skips 315-316.
CloseTail(ping, handle, own) ==
  IF ping = "running"
  THEN [ping |-> "cancelled", handle |-> IF own THEN "aborted" ELSE handle, outcome |-> "raised"]
  ELSE IF handle = "running"
  THEN [ping |-> ping, handle |-> "cancelled", outcome |-> "returned"]
  ELSE IF handle = "closing"
  THEN [ping |-> ping, handle |-> "aborted", outcome |-> "returned"]
  ELSE [ping |-> ping, handle |-> handle,
        outcome |-> IF handle \in {"stopped", "cancelled"} THEN "returned" ELSE "raised"]

\* CallerClose without the guards at 299-303.
CallerCloseUnguarded(s) ==
  /\ made[s] /\ callerClose[s] # "wsclose"
  /\ callerClose' = [callerClose EXCEPT ![s] = "wsclose"]
  /\ wsOpen' = [wsOpen EXCEPT ![s] = FALSE]
  /\ wsCloses' = [wsCloses EXCEPT ![s] = @ + 1]
  /\ nodeReq' = [nodeReq EXCEPT ![s] = {}]
  /\ nodeSubs' = [nodeSubs EXCEPT ![s] = {}]
  /\ UNCHANGED <<pureVars, httpVars, made, hasWs, connected, ids, wire, pingTask, handleTask,
                 inflight, subscriptions, futs, queues, calls, userCalls, nodeSeq,
                 pendingOut>>

\* The caller calls close(): it returns at 300 or 303, or suspends at 305.
CallerClose(s) ==
  /\ made[s] /\ callerClose[s] # "wsclose"
  /\ IF ~hasWs[s] \/ ~connected[s]
     THEN /\ callerClose' = [callerClose EXCEPT ![s] = "returned"]
          /\ UNCHANGED <<wsOpen, wsCloses, nodeReq, nodeSubs>>
     ELSE /\ callerClose' = [callerClose EXCEPT ![s] = "wsclose"]
          /\ wsOpen' = [wsOpen EXCEPT ![s] = FALSE]
          /\ wsCloses' = [wsCloses EXCEPT ![s] = @ + 1]
          /\ nodeReq' = [nodeReq EXCEPT ![s] = {}]
          /\ nodeSubs' = [nodeSubs EXCEPT ![s] = {}]
  /\ UNCHANGED <<pureVars, httpVars, made, hasWs, connected, ids, wire, pingTask, handleTask,
                 inflight, subscriptions, futs, queues, calls, userCalls, nodeSeq,
                 pendingOut>>

CloseFinish(s, own, t) ==
  /\ connected' = [connected EXCEPT ![s] = FALSE]
  /\ pingTask' = [pingTask EXCEPT ![s] = t.ping]
  /\ handleTask' = [handleTask EXCEPT ![s] = t.handle]

\* CallerCloseFinish that also fails every completion still pending.
CallerCloseFinishFailing(s) ==
  /\ callerClose[s] = "wsclose"
  /\ LET t == CloseTail(pingTask[s], handleTask[s], FALSE)
     IN /\ CloseFinish(s, FALSE, t)
        /\ callerClose' = [callerClose EXCEPT ![s] = t.outcome]
  /\ futs' = [f \in 1..Len(futs) |->
                IF futs[f].st = "pending" THEN [st |-> "exception", val |-> Absent]
                ELSE futs[f]]
  /\ UNCHANGED <<pureVars, httpVars, made, hasWs, ids, wsOpen, wire, wsCloses, inflight,
                 subscriptions, queues, calls, userCalls, nodeVars, pendingOut>>

\* the caller's close() resumes after self._ws.close()
CallerCloseFinish(s) ==
  /\ callerClose[s] = "wsclose"
  /\ LET t == CloseTail(pingTask[s], handleTask[s], FALSE)
     IN /\ CloseFinish(s, FALSE, t)
        /\ callerClose' = [callerClose EXCEPT ![s] = t.outcome]
  /\ UNCHANGED <<pureVars, httpVars, made, hasWs, ids, wsOpen, wire, wsCloses, inflight,
                 subscriptions, futs, queues, calls, userCalls, nodeVars, pendingOut>>

\* the demultiplexer's close() (292) resumes after self._ws.close(): either
\* CancelledError leaves it at 311, or it cancels the task it runs in at 314.
HandleCloseFinish(s) ==
  /\ handleTask[s] = "closing"
  /\ LET t == CloseTail(pingTask[s], handleTask[s], TRUE)
     IN CloseFinish(s, TRUE, t)
  /\ UNCHANGED <<pureVars, httpVars, made, hasWs, ids, wsOpen, wire, callerClose, wsCloses,
                 inflight, subscriptions, futs, queues, calls, userCalls, nodeVars,
                 pendingOut>>

\* the close() of an _RPC whose send() raised (408) resumes; then 409 raises.
RpcCloseFinish(n) ==
  /\ calls[n].pc = "closing"
  /\ LET s == calls[n].sess
         t == CloseTail(pingTask[s], handleTask[s], FALSE)
     IN CloseFinish(s, FALSE, t)
  /\ calls' = [calls EXCEPT ![n].pc = "raised"]
  /\ UNCHANGED <<pureVars, httpVars, made, hasWs, ids, wsOpen, wire, callerClose, wsCloses,
                 inflight, subscriptions, futs, queues, userCalls, nodeVars, pendingOut>>

\* ------------------------------------------------- WSRPC.get_pending (318-336)
PendingOf(inf, fs) == SelectSeq(Values(inf), LAMBDA r : ~Done(fs[r.fut]))

\* get_pending with next_id = max(keys), without the + 1 of line 334.
GetPendingResultNoSuccessor(s) ==
  IF connected[s] THEN [NoPending EXCEPT !.st = "RuntimeError"]
  ELSE IF inflight = <<>> THEN [NoPending EXCEPT !.st = "ValueError"]
  ELSE [st |-> "ok", next |-> MaxOf(Keys(inflight)),
        pending |-> PendingOf(inflight, futs), subs |-> Values(subscriptions)]

GetPendingResult(s) ==
  IF connected[s] THEN [NoPending EXCEPT !.st = "RuntimeError"]   \* 320-322
  ELSE IF inflight = <<>> THEN [NoPending EXCEPT !.st = "ValueError"]  \* max() of nothing, 334
  ELSE [st |-> "ok", next |-> MaxOf(Keys(inflight)) + 1,
        pending |-> PendingOf(inflight, futs), subs |-> Values(subscriptions)]

\* ------------------------------------------------- WSRPC.from_pending (338-365)
\* The caller builds session b from what get_pending() gives on session b - 1,
\* which it hands to from_pending() as it is.
\* The constructor seeds the generator with start_id, open() connects, and the
\* gathered coroutines run in list order: each pending request through _RPC
\* with its original future, then each subscription through _subscribe with
\* its original queue.
Redispatched(b, start, n0, P, S) ==
  [i \in 1..(Len(P) + Len(S)) |->
     IF i <= Len(P)
     THEN NewCall(b, n0 + i, start + i - 1, "rpc", P[i].method, P[i].params,
                  P[i].fut, 0, "await")
     ELSE NewCall(b, n0 + i, start + i - 1, "subscribe", "eth_subscribe",
                  S[i - Len(P)].params, 0, S[i - Len(P)].queue, "await")]

RECURSIVE PutAll(_, _)
PutAll(d, cs) ==
  IF cs = <<>> THEN d ELSE PutAll(Put(d, Head(cs).id, Request(Head(cs))), Tail(cs))

FromPending(b) ==
  /\ b \in Sess \ {1} /\ ~made[b] /\ made[b - 1]
  /\ GetPendingResult(b - 1).st = "ok"
  /\ pendingOut' = [pendingOut EXCEPT ![b - 1] = GetPendingResult(b - 1)]
  /\ LET po == GetPendingResult(b - 1)
         cs == Redispatched(b, po.next, Len(calls), po.pending, po.subs)
     IN /\ calls' = calls \o cs
        /\ futs' = futs \o [i \in 1..Len(cs) |->
                      IF cs[i].kind = "rpc" THEN UnusedFut ELSE PendingFut]
        /\ queues' = queues \o [i \in 1..Len(cs) |-> <<>>]
        /\ inflight' = PutAll(inflight, cs)
        /\ ids' = [ids EXCEPT ![b] = po.next + Len(cs)]
        /\ nodeReq' = [nodeReq EXCEPT ![b] = {Frame(cs[i]) : i \in 1..Len(cs)}]
  /\ made' = [made EXCEPT ![b] = TRUE]
  /\ hasWs' = [hasWs EXCEPT ![b] = TRUE]
  /\ wsOpen' = [wsOpen EXCEPT ![b] = TRUE]
  /\ connected' = [connected EXCEPT ![b] = TRUE]
  /\ pingTask' = [pingTask EXCEPT ![b] = "running"]
  /\ handleTask' = [handleTask EXCEPT ![b] = "running"]
  /\ UNCHANGED <<pureVars, httpVars, wire, callerClose, wsCloses, subscriptions,
                 userCalls, nodeSubs, nodeSeq>>

\* ------------------------------------------------------------- the node
\* The node answers the requests it has received in any order, each once,
\* with a result or an error; eth_subscribe gives a subscription id it has not
\* used before. Frames on one connection arrive in the order they were sent.
RECURSIVE SumSeq(_)
SumSeq(q) == IF q = <<>> THEN 0 ELSE Head(q) + SumSeq(Tail(q))

NodeAnswer(s, r) ==
  IF r.method = "eth_subscribe" THEN <<Len(nodeSeq) + 1>> ELSE <<s, r.id>>

NodeReply(s, r) ==
  /\ wsOpen[s] /\ r \in nodeReq[s]
  /\ wire' = [wire EXCEPT ![s] = Append(@, ResultPayload(r.id, NodeAnswer(s, r)))]
  /\ nodeReq' = [nodeReq EXCEPT ![s] = @ \ {r}]
  /\ nodeSubs' = [nodeSubs EXCEPT ![s] =
        IF r.method = "eth_subscribe" THEN @ \cup {Len(nodeSeq) + 1}
        ELSE IF r.method = "eth_unsubscribe" THEN @ \ {r.params[1]}
        ELSE @]
  /\ nodeSeq' = IF r.method = "eth_subscribe" THEN Append(nodeSeq, 0) ELSE nodeSeq
  /\ UNCHANGED <<pureVars, httpVars, sessVars, inflight, subscriptions, futs, queues, calls, userCalls,
                 pendingOut>>

NodeError(s, r) ==
  /\ wsOpen[s] /\ r \in nodeReq[s]
  /\ wire' = [wire EXCEPT ![s] = Append(@, ErrorPayload(r.id, <<s, r.id>>))]
  /\ nodeReq' = [nodeReq EXCEPT ![s] = @ \ {r}]
  /\ UNCHANGED <<pureVars, httpVars, sessVars, inflight, subscriptions, futs, queues, calls, userCalls,
                 nodeSubs, nodeSeq, pendingOut>>

NodeNotify(s, k) ==
  /\ wsOpen[s] /\ k \in nodeSubs[s] /\ SumSeq(nodeSeq) < MaxEvents
  /\ wire' = [wire EXCEPT ![s] = Append(@, NotifyPayload(<<k>>, <<k, nodeSeq[k] + 1>>))]
  /\ nodeSeq' = [nodeSeq EXCEPT ![k] = @ + 1]
  /\ UNCHANGED <<pureVars, httpVars, sessVars, inflight, subscriptions, futs, queues, calls, userCalls,
                 nodeReq, nodeSubs, pendingOut>>

\* The connection is lost without the client asking for it.
NodeDrop(s) ==
  /\ wsOpen[s]
  /\ wsOpen' = [wsOpen EXCEPT ![s] = FALSE]
  /\ nodeReq' = [nodeReq EXCEPT ![s] = {}]
  /\ nodeSubs' = [nodeSubs EXCEPT ![s] = {}]
  /\ UNCHANGED <<pureVars, httpVars, made, hasWs, connected, ids, wire, pingTask, handleTask, callerClose,
                 wsCloses, inflight, subscriptions, futs,
                 queues, calls, userCalls, nodeSeq, pendingOut>>

\* ------------------------------------------------- HTTPRPC (462-499)
\* One HTTPRPC object and the server it posts to. An aiohttp session shuts its
\* connections the first time it is closed; closing it again does nothing.
MaxHttpOpens == 2   \* open() calls that make an aiohttp session
MaxHttpCalls == 2   \* _RPC calls on the HTTP client

OkStatus == 200

\* HTTPRPC.open (473-481)
HttpOpen ==
  /\ IF httpConnected
     THEN UNCHANGED <<httpConnected, httpSession, httpOpens>>
     ELSE /\ httpOpens < MaxHttpOpens
          /\ httpSession' = "open"
          /\ httpOpens' = httpOpens + 1
          /\ httpConnected' = TRUE
  /\ UNCHANGED <<pureVars, wsVars, httpShut, httpIds, httpCalls, httpClose>>

\* HTTPRPC.close (483-485): with no _session attribute line 484 raises and 485
\* is not reached.
HttpClose ==
  /\ IF httpSession = "none"
     THEN /\ httpClose' = "raised"
          /\ UNCHANGED <<httpConnected, httpSession, httpShut>>
     ELSE /\ httpClose' = "returned"
          /\ httpShut' = IF httpSession = "open" THEN httpShut + 1 ELSE httpShut
          /\ httpSession' = "closed"
          /\ httpConnected' = FALSE
  /\ UNCHANGED <<pureVars, wsVars, httpOpens, httpIds, httpCalls>>

\* HTTPRPC._RPC (487-494): the id is drawn, then the request posted.
HttpCall ==
  /\ Len(httpCalls) < MaxHttpCalls
  /\ httpIds' = httpIds + 1
  /\ httpCalls' = Append(httpCalls,
        [id |-> httpIds, pc |-> IF httpSession = "open" THEN "posted" ELSE "raised",
         val |-> Absent])
  /\ UNCHANGED <<pureVars, wsVars, httpConnected, httpSession, httpOpens, httpShut, httpClose>>

\* HTTPRPC._RPC (495-499): the response has come.
HttpResult(status, body) ==
  IF status # OkStatus THEN [pc |-> "raised", val |-> Absent]
  ELSE [pc |-> "returned", val |-> IF "result" \in body.keys THEN body.result ELSE body.whole]

HttpRespond(n, status, keys) ==
  /\ httpCalls[n].pc = "posted"
  /\ LET body == [keys |-> keys, result |-> <<httpCalls[n].id>>,
                  whole |-> <<httpCalls[n].id, httpCalls[n].id>>]
         r == HttpResult(status, body)
     IN httpCalls' = [httpCalls EXCEPT ![n].pc = r.pc, ![n].val = r.val]
  /\ UNCHANGED <<pureVars, wsVars, httpConnected, httpSession, httpOpens, httpShut, httpIds,
                 httpClose>>

\* ------------------------------------------------------------ specification
\* get_client (26-53) gives its caller one client: a WSRPC session with its
\* node, or an HTTPRPC client with its server.
WsUnused == \A s \in Sess : ~hasWs[s]

HttpUnused == httpSession = "none" /\ httpCalls = <<>> /\ httpClose = "idle"

Next ==
  \/ HttpUnused /\ \E s \in Sess : Open(s)
  \/ WsUnused /\ HttpOpen
  \/ WsUnused /\ HttpClose
  \/ WsUnused /\ HttpCall
  \/ \E n \in 1..Len(httpCalls) : \E status \in {OkStatus, OkStatus + 300} :
       \E keys \in {{"id", "result"}, {"id"}} : HttpRespond(n, status, keys)
  \/ \E s \in Sess : CallRPC(s)
  \/ \E s \in Sess : CallSubscribe(s)
  \/ \E s \in Sess : \E sub \in Keys(subscriptions) : CallUnsubscribe(s, sub)
  \/ \E n \in 1..Len(calls) : Resume(n)
  \/ \E s \in Sess : HandleIncoming(s)
  \/ \E s \in Sess : HandleClosed(s)
  \/ \E s \in Sess : PingClosed(s)
  \/ \E s \in Sess : CallerClose(s)
  \/ \E s \in Sess : CallerCloseFinish(s)
  \/ \E s \in Sess : HandleCloseFinish(s)
  \/ \E n \in 1..Len(calls) : RpcCloseFinish(n)
  \/ \E s \in Sess : \E r \in nodeReq[s] : NodeReply(s, r)
  \/ \E s \in Sess : \E r \in nodeReq[s] : NodeError(s, r)
  \/ \E s \in Sess : \E k \in nodeSubs[s] : NodeNotify(s, k)
  \/ \E s \in Sess : NodeDrop(s)

Spec == Init /\ [][Next]_vars

\* A chain of sessions, each resumed from the one before it, with a node that
\* answers every request with a result and a caller that does not unsubscribe.
NextHandover ==
  \/ \E s \in Sess : Open(s)
  \/ \E s \in Sess : CallRPC(s)
  \/ \E s \in Sess : CallSubscribe(s)
  \/ \E n \in 1..Len(calls) : Resume(n)
  \/ \E s \in Sess : HandleIncoming(s)
  \/ \E s \in Sess : HandleClosed(s)
  \/ \E s \in Sess : PingClosed(s)
  \/ \E s \in Sess : CallerClose(s)
  \/ \E s \in Sess : CallerCloseFinish(s)
  \/ \E s \in Sess : HandleCloseFinish(s)
  \/ \E n \in 1..Len(calls) : RpcCloseFinish(n)
  \/ \E b \in Sess : FromPending(b)
  \/ \E s \in Sess : \E r \in nodeReq[s] : NodeReply(s, r)
  \/ \E s \in Sess : \E k \in nodeSubs[s] : NodeNotify(s, k)
  \/ \E s \in Sess : NodeDrop(s)

SpecHandover == Init /\ [][NextHandover]_vars

\* Two sessions the caller constructs itself, each with its own connection
\* and the default _id of 0 (line 75), open at the same time.
InitPeers ==
  /\ InitRLPIdle /\ InitTxIdle /\ InitAbiIdle
  /\ made = [s \in Sess |-> TRUE]
  /\ hasWs = [s \in Sess |-> FALSE]
  /\ connected = [s \in Sess |-> FALSE]
  /\ ids = [s \in Sess |-> 0]
  /\ wsOpen = [s \in Sess |-> FALSE]
  /\ wire = [s \in Sess |-> <<>>]
  /\ pingTask = [s \in Sess |-> "none"]
  /\ handleTask = [s \in Sess |-> "none"]
  /\ callerClose = [s \in Sess |-> "idle"]
  /\ wsCloses = [s \in Sess |-> 0]
  /\ inflight = <<>>
  /\ subscriptions = <<>>
  /\ futs = <<>>
  /\ queues = <<>>
  /\ calls = <<>>
  /\ userCalls = 0
  /\ nodeReq = [s \in Sess |-> {}]
  /\ nodeSubs = [s \in Sess |-> {}]
  /\ nodeSeq = <<>>
  /\ pendingOut = [s \in Sess |-> NoPending]
  /\ httpConnected = FALSE
  /\ httpSession = "none"
  /\ httpOpens = 0
  /\ httpShut = 0
  /\ httpIds = 0
  /\ httpCalls = <<>>
  /\ httpClose = "idle"

NextPeers ==
  \/ \E s \in Sess : Open(s)
  \/ \E s \in Sess : CallRPC(s)
  \/ \E s \in Sess : CallSubscribe(s)
  \/ \E n \in 1..Len(calls) : Resume(n)
  \/ \E s \in Sess : HandleIncoming(s)
  \/ \E s \in Sess : \E r \in nodeReq[s] : NodeReply(s, r)
  \/ \E s \in Sess : \E k \in nodeSubs[s] : NodeNotify(s, k)

SpecPeers == InitPeers /\ [][NextPeers]_vars

\* ------------------------------------ WSRPC._handle_incoming: any payload
\* One session whose node may also send payloads no request asked for: an
\* error object without an id, an error object with an id no request has
\* drawn, a second response to a request already completed, a notification
\* under a subscription id it never gave out.
MaxWire == 2   \* frames waiting on the connection when one of these is sent

StrayPayloads(s) ==
  {[keys |-> {"error"}, id |-> 0, error |-> <<s, ids[s]>>, result |-> Absent,
    sub |-> Absent],
   ErrorPayload(ids[s], <<s, ids[s]>>),
   NotifyPayload(<<Len(nodeSeq) + 1>>, <<Len(nodeSeq) + 1, 1>>)}
  \cup {ResultPayload(calls[n].id, <<s, calls[n].id>>) :
          n \in {m \in 1..Len(calls) : calls[m].sess = s /\ Done(futs[calls[m].fut])}}

NodeStray(s, p) ==
  /\ wsOpen[s] /\ Len(wire[s]) < MaxWire
  /\ wire' = [wire EXCEPT ![s] = Append(@, p)]
  /\ UNCHANGED <<pureVars, httpVars, sessVars, inflight, subscriptions, futs, queues,
                 calls, userCalls, nodeVars, pendingOut>>

NextStray ==
  \/ \E s \in Sess : Open(s)
  \/ \E s \in Sess : CallRPC(s)
  \/ \E s \in Sess : CallSubscribe(s)
  \/ \E s \in Sess : \E sub \in Keys(subscriptions) : CallUnsubscribe(s, sub)
  \/ \E n \in 1..Len(calls) : Resume(n)
  \/ \E s \in Sess : HandleIncoming(s)
  \/ \E s \in Sess : \E r \in nodeReq[s] : NodeReply(s, r)
  \/ \E s \in Sess : \E k \in nodeSubs[s] : NodeNotify(s, k)
  \/ \E s \in Sess : \E p \in StrayPayloads(s) : NodeStray(s, p)

SpecStray == Init /\ [][NextStray]_vars

\* ------------------------------------------------------------------ rlp.py
\* An RLP item is a byte string or a list of items; a byte is a number 0..255.
MaxWidth == 2       \* items in one list of an input
MaxCut == 2         \* bytes that may be missing at the end of what decode() is given

BYTES_OFFSET == 128

LONG_BYTES_OFFSET == BYTES_OFFSET + 55

ARRAY_OFFSET == 192

LONG_ARRAY_OFFSET == ARRAY_OFFSET + 55

\* Both kinds of item have the same fields, the one not in use being empty.
Bytes(b) == [t |-> "bytes", b |-> b, xs |-> <<>>]

List(xs) == [t |-> "list", b |-> <<>>, xs |-> xs]

\* b''.join(...)
RECURSIVE Join(_)
Join(ss) == IF ss = <<>> THEN <<>> ELSE Head(ss) \o Join(Tail(ss))

\* python's raw[a:b] for 0 <= a, 0 <= b: what is there of it
Slice(raw, a, b) == SubSeq(raw, a + 1, IF b < Len(raw) THEN b ELSE Len(raw))

\* int.from_bytes(b, 'big')
RECURSIVE FromBytes(_)
FromBytes(b) ==
  IF b = <<>> THEN 0 ELSE FromBytes(SubSeq(b, 1, Len(b) - 1)) * 256 + b[Len(b)]

\* i2be_rlp_padded(number) with length = 0 and signed = False (17-34), for
\* number >= 0: to_bytes() raises OverflowError for a negative number.
RECURSIVE i2be_rlp_padded(_)
i2be_rlp_padded(number) ==
  IF number = 0 THEN <<>>
  ELSE Append(i2be_rlp_padded(number \div 256), number % 256)

\* be2i_rlp reading the bytes from the little end.
le2i_rlp(b) ==
  IF b = <<>> THEN 0
  ELSE FromBytes([i \in 1..Len(b) |-> b[Len(b) + 1 - i]])

\* be2i_rlp (37-40)
be2i_rlp(b) == IF b = <<>> THEN 0 ELSE FromBytes(b)

\* _encode_length with the short form up to 54 only.
EncodeLengthShortBelow(length, offset) ==
  IF length < 55 THEN <<offset + length>>
  ELSE <<offset + 55 + Len(i2be_rlp_padded(length))>> \o i2be_rlp_padded(length)

\* _encode_length (54-64); a length of 256 ** 8 or more is not reached here
EncodeLength(length, offset) ==
  IF length <= 55 THEN <<offset + length>>
  ELSE <<offset + 55 + Len(i2be_rlp_padded(length))>> \o i2be_rlp_padded(length)

\* encode (43-51)
RECURSIVE Encode(_)
Encode(item) ==
  IF item.t = "bytes"
  THEN IF Len(item.b) = 1 /\ item.b[1] < BYTES_OFFSET THEN item.b
       ELSE EncodeLength(Len(item.b), BYTES_OFFSET) \o item.b
  ELSE LET output == Join([i \in 1..Len(item.xs) |-> Encode(item.xs[i])])
       IN EncodeLength(Len(output), ARRAY_OFFSET) \o output

\* _decode_length with the tag 0x80 taken for a single byte.
DecodeLengthSingleUpTo(raw) ==
  LET tag == raw[1]
  IN IF tag <= BYTES_OFFSET THEN [offset |-> 0, len |-> 1, type |-> "bytes"]
     ELSE IF tag <= LONG_BYTES_OFFSET
     THEN [offset |-> 1, len |-> tag - BYTES_OFFSET, type |-> "bytes"]
     ELSE IF tag <= LONG_BYTES_OFFSET + 7
     THEN [offset |-> 1 + (tag - LONG_BYTES_OFFSET),
           len |-> FromBytes(Slice(raw, 1, 1 + (tag - LONG_BYTES_OFFSET))),
           type |-> "bytes"]
     ELSE IF tag <= LONG_ARRAY_OFFSET
     THEN [offset |-> 1, len |-> tag - ARRAY_OFFSET, type |-> "list"]
     ELSE [offset |-> 1 + (tag - LONG_ARRAY_OFFSET),
           len |-> FromBytes(Slice(raw, 1, 1 + (tag - LONG_ARRAY_OFFSET))),
           type |-> "list"]

\* _decode_length (98-129) on a byte string that is not empty: both callers
\* test len() > 0 first (70, 82), so raw[0] at line 100 never raises.
DecodeLength(raw) ==
  LET tag == raw[1]
  IN IF tag < BYTES_OFFSET THEN [offset |-> 0, len |-> 1, type |-> "bytes"]
     ELSE IF tag <= LONG_BYTES_OFFSET
     THEN [offset |-> 1, len |-> tag - BYTES_OFFSET, type |-> "bytes"]
     ELSE IF tag <= LONG_BYTES_OFFSET + 7
     THEN [offset |-> 1 + (tag - LONG_BYTES_OFFSET),
           len |-> FromBytes(Slice(raw, 1, 1 + (tag - LONG_BYTES_OFFSET))),
           type |-> "bytes"]
     ELSE IF tag <= LONG_ARRAY_OFFSET
     THEN [offset |-> 1, len |-> tag - ARRAY_OFFSET, type |-> "list"]
     ELSE [offset |-> 1 + (tag - LONG_ARRAY_OFFSET),
           len |-> FromBytes(Slice(raw, 1, 1 + (tag - LONG_ARRAY_OFFSET))),
           type |-> "list"]

\* decode (81-95) and decode_list (67-78). A slice of a bytes object never
\* raises IndexError, so neither except clause (75, 89) is ever entered.
RECURSIVE Decode(_), DecodeList(_)
Decode(raw) ==
  IF Len(raw) = 0 THEN Bytes(<<>>)
  ELSE LET d == DecodeLength(raw)
           next_item == Slice(raw, d.offset, d.offset + d.len)
       IN IF d.type = "bytes" THEN Bytes(next_item)
          ELSE List(DecodeList(next_item))

DecodeList(raw) ==
  IF Len(raw) = 0 THEN <<>>
  ELSE LET d == DecodeLength(raw)
       IN <<Decode(Slice(raw, 0, d.offset + d.len))>>
            \o DecodeList(Slice(raw, d.offset + d.len, Len(raw)))

\* The items given to encode(): byte strings on both sides of every length
\* rule, lists of them, and lists of lists.
Fill(n, b) == [i \in 1..n |-> b]

ShortBytes == {Bytes(<<>>), Bytes(<<127>>), Bytes(<<128>>)}

LongBytes == {Bytes(Fill(55, 1)), Bytes(Fill(56, 1)), Bytes(Fill(256, 1))}

ListsOver(S, w) == UNION {{List(xs) : xs \in [1..n -> S]} : n \in 0..w}

RlpItems ==
  ShortBytes \cup LongBytes
    \cup ListsOver(ShortBytes \cup LongBytes, MaxWidth)
    \cup ListsOver(ShortBytes \cup ListsOver(ShortBytes, 1), MaxWidth)

InitRLP ==
  /\ InitRPC /\ InitTxIdle /\ InitAbiIdle
  /\ rlpItem \in RlpItems
  /\ rlpRaw = <<>>
  /\ rlpOut = NoCall
  /\ rlpFrames = <<>>

\* encode(rlpItem)
RlpEncode ==
  /\ rlpOut.op = "none"
  /\ rlpOut' = [op |-> "encode", st |-> "ok", val |-> Encode(rlpItem)]
  /\ UNCHANGED <<rlpItem, rlpRaw, rlpFrames, txVars, abiVars, wsVars, httpVars>>

\* decode() of the encoding as it was received, with its last cut bytes missing
RlpDecode(cut) ==
  /\ rlpOut.op = "encode" /\ cut <= Len(rlpOut.val)
  /\ rlpRaw' = SubSeq(rlpOut.val, 1, Len(rlpOut.val) - cut)
  /\ rlpOut' = [op |-> "decode", st |-> "ok", val |-> Decode(rlpRaw')]
  /\ UNCHANGED <<rlpItem, rlpFrames, txVars, abiVars, wsVars, httpVars>>

\* encode() of what decode() returned
RlpReencode ==
  /\ rlpOut.op = "decode"
  /\ rlpOut' = [op |-> "reencode", st |-> "ok", val |-> Encode(rlpOut.val)]
  /\ UNCHANGED <<rlpItem, rlpRaw, rlpFrames, txVars, abiVars, wsVars, httpVars>>

NextRLP ==
  \/ RlpEncode
  \/ \E cut \in 0..MaxCut : RlpDecode(cut)
  \/ RlpReencode

SpecRLP == InitRLP /\ [][NextRLP]_vars

\* --------------------------------------------- rlp.py: decode, step by step
\* decode() and decode_list() as they run: rlpFrames holds one frame for each
\* decode_list() call that has not returned, with its locals remaining and
\* output; resume is offset + data_len of the iteration that waits for the
\* decode() it called at line 74, and -1 in a frame that is running.
MaxRaw == 2         \* bytes in what decode() is given

ListCall(remaining) == [remaining |-> remaining, output |-> <<>>, resume |-> -1]

Top == rlpFrames[Len(rlpFrames)]

\* one byte on each side of every comparison of _decode_length
TagBytes ==
  {0, BYTES_OFFSET - 1, BYTES_OFFSET, BYTES_OFFSET + 1, LONG_BYTES_OFFSET,
   LONG_BYTES_OFFSET + 1, LONG_BYTES_OFFSET + 7, LONG_BYTES_OFFSET + 8, ARRAY_OFFSET,
   ARRAY_OFFSET + 1, LONG_ARRAY_OFFSET, LONG_ARRAY_OFFSET + 1, 255}

RawInputs == UNION {[1..n -> TagBytes] : n \in 0..MaxRaw}

InitDecode ==
  /\ InitRPC /\ InitTxIdle /\ InitAbiIdle
  /\ rlpItem = Absent
  /\ rlpRaw \in RawInputs
  /\ rlpOut = NoCall
  /\ rlpFrames = <<>>

\* decode(raw) up to its return or its call of decode_list (81-95)
DecodeCall(raw) ==
  IF Len(raw) = 0 THEN [list |-> FALSE, val |-> <<>>]
  ELSE LET d == DecodeLength(raw)
       IN [list |-> d.type = "list", val |-> Slice(raw, d.offset, d.offset + d.len)]

\* the caller calls decode(rlpRaw)
DecodeEnter ==
  /\ rlpOut.op = "none"
  /\ LET c == DecodeCall(rlpRaw)
     IN IF c.list
        THEN /\ rlpFrames' = <<ListCall(c.val)>>
             /\ rlpOut' = [op |-> "decoding", st |-> "running", val |-> Absent]
        ELSE /\ rlpOut' = [op |-> "decode", st |-> "ok", val |-> Bytes(c.val)]
             /\ UNCHANGED rlpFrames
  /\ UNCHANGED <<rlpItem, rlpRaw, txVars, abiVars, wsVars, httpVars>>

\* one pass of the loop of decode_list (70-77) in the innermost call: a byte
\* string item is appended and cut off; for a list item decode() calls
\* decode_list, and the pass goes on when that returns. More than MaxRaw
\* items are not followed.
DecodeListPass ==
  /\ rlpFrames # <<>> /\ Len(Top.remaining) > 0 /\ Len(Top.output) <= MaxRaw
  /\ LET k == Len(rlpFrames)
         d == DecodeLength(Top.remaining)
         c == DecodeCall(Slice(Top.remaining, 0, d.offset + d.len))
     IN IF c.list
        THEN rlpFrames' = Append([rlpFrames EXCEPT ![k].resume = d.offset + d.len],
                                 ListCall(c.val))
        ELSE rlpFrames' =
               [rlpFrames EXCEPT
                  ![k].output = Append(@, Bytes(c.val)),
                  ![k].remaining = Slice(@, d.offset + d.len, Len(@))]
  /\ UNCHANGED <<rlpItem, rlpRaw, rlpOut, txVars, abiVars, wsVars, httpVars>>

\* the loop of the innermost decode_list has ended (70, 78): its list goes to
\* the pass that waits for it (74, 77), or to the caller of decode()
DecodeListReturn ==
  /\ rlpFrames # <<>> /\ Len(Top.remaining) = 0
  /\ LET k == Len(rlpFrames)
     IN IF k = 1
        THEN /\ rlpFrames' = <<>>
             /\ rlpOut' = [op |-> "decode", st |-> "ok", val |-> List(Top.output)]
        ELSE /\ rlpFrames' =
                  [SubSeq(rlpFrames, 1, k - 1) EXCEPT
                     ![k - 1].output = Append(@, List(Top.output)),
                     ![k - 1].remaining = Slice(@, rlpFrames[k - 1].resume, Len(@)),
                     ![k - 1].resume = -1]
             /\ UNCHANGED rlpOut
  /\ UNCHANGED <<rlpItem, rlpRaw, txVars, abiVars, wsVars, httpVars>>

NextDecode ==
  \/ DecodeEnter
  \/ DecodeListPass
  \/ DecodeListReturn

SpecDecode == InitDecode /\ [][NextDecode]_vars

\* ------------------------------------------------------------- crypto.py
\* keccak256 (13-24) is taken as an injective function whose value is not
\* looked into: the message behind a marker that is no byte.
keccak256(msg) == <<-1>> \o msg

\* priv_to_pub (63-67) and pub_to_addr (70-72), likewise
priv_to_pub(privkey) == <<-2, privkey>>

pub_to_addr(pubkey) == <<-3>> \o pubkey

\* --------------------------------------------------------- transactions.py
\* A str is the sequence of its characters.
HexLower == <<"0", "1", "2", "3", "4", "5", "6", "7", "8", "9",
              "a", "b", "c", "d", "e", "f">>

HexUpper == <<"0", "1", "2", "3", "4", "5", "6", "7", "8", "9",
              "A", "B", "C", "D", "E", "F">>

HexVal(c) == (CHOOSE i \in 1..16 : HexLower[i] = c \/ HexUpper[i] = c) - 1

\* bytes.fromhex(s) for s of even length: an odd length raises ValueError
FromHex(s) ==
  [i \in 1..(Len(s) \div 2) |-> HexVal(s[2 * i - 1]) * 16 + HexVal(s[2 * i])]

\* b.hex()
Hex(b) == Join([i \in 1..Len(b) |->
                  <<HexLower[(b[i] \div 16) + 1], HexLower[(b[i] % 16) + 1]>>])

\* f'0x{b.hex()}'
Hex0x(b) == <<"0", "x">> \o Hex(b)

\* s[2:]
From2(s) == SubSeq(s, 3, Len(s))

None == <<"None">>

\* What a call gives: a value, or the exception that left it.
Ok(v) == [st |-> "ok", val |-> v]

Raise(e) == [st |-> e, val |-> Absent]

\* A transaction object. Every class has the same fields here; an attribute
\* the class does not have is -1 (int), <<"-">> (str) or <<>> (tx_id).
\* immutable is _Immutable__immutable (12, 18).
Signed(cls) == cls \in {"SignedEthTx", "SignedCeloTx"}

Celo(cls) == cls \in {"SignedCeloTx", "UnsignedCeloTx"}

NoStr == <<"-">>

Fields(cls, nonce, gasPrice, gas, gasCurrency, gasFeeRecipient, to, value, data, chainId, v, r, s) ==
  [cls |-> cls, nonce |-> nonce, gasPrice |-> gasPrice, gas |-> gas,
   gasCurrency |-> gasCurrency, gasFeeRecipient |-> gasFeeRecipient,
   to |-> to, value |-> value, data |-> data, chainId |-> chainId,
   v |-> v, r |-> r, s |-> s, tx_id |-> <<>>, immutable |-> FALSE]

\* Immutable._make_immutable (14-18)
MakeImmutable(o) == [o EXCEPT !.immutable = TRUE]

\* SignedEthTx.serialize (455-468) and SignedCeloTx.serialize (581-604):
\* to_bytes() raises OverflowError for a negative integer.
OptionalAddress(a) == IF a = None THEN <<>> ELSE FromHex(From2(a))

ToSerialize(o) ==
  <<Bytes(i2be_rlp_padded(o.nonce)), Bytes(i2be_rlp_padded(o.gasPrice)),
    Bytes(i2be_rlp_padded(o.gas))>>
  \o (IF Celo(o.cls)
      THEN <<Bytes(OptionalAddress(o.gasCurrency)),
             Bytes(OptionalAddress(o.gasFeeRecipient))>>
      ELSE <<>>)
  \o <<Bytes(FromHex(From2(o.to))), Bytes(i2be_rlp_padded(o.value)), Bytes(o.data),
       Bytes(i2be_rlp_padded(o.v)), Bytes(i2be_rlp_padded(o.r)),
       Bytes(i2be_rlp_padded(o.s))>>

SerializeSigned(o) ==
  IF \E n \in {o.nonce, o.gasPrice, o.gas, o.value, o.v, o.r, o.s} : n < 0
  THEN Raise("OverflowError")
  ELSE Ok(Encode(List(ToSerialize(o))))

\* SignedEthTx.__init__ (383-404), SignedCeloTx.__init__ (513-538): the
\* fields are assigned, _set_tx_id (470-472) serializes, _make_immutable.
SignedTx(f) ==
  IF SerializeSigned(f).st # "ok" THEN SerializeSigned(f)
  ELSE Ok(MakeImmutable([f EXCEPT !.tx_id = keccak256(SerializeSigned(f).val)]))

\* UnsignedEthTx.__init__ (156-172), UnsignedCeloTx.__init__ (272-292)
UnsignedTx(f) == Ok(MakeImmutable(f))

SignedClass(cls) == IF Celo(cls) THEN "SignedCeloTx" ELSE "SignedEthTx"

UnsignedClass(cls) == IF Celo(cls) THEN "UnsignedCeloTx" ELSE "UnsignedEthTx"

\* _with_null_signature (233-241, 335-349)
WithNullSignature(u) ==
  SignedTx(Fields(SignedClass(u.cls), u.nonce, u.gasPrice, u.gas, u.gasCurrency,
                  u.gasFeeRecipient, u.to, u.value, u.data, -1, u.chainId, 0, 0))

\* as_unsigned with 36 taken off whatever v is.
AsUnsignedEven(t) ==
  UnsignedTx(Fields(UnsignedClass(t.cls), t.nonce, t.gasPrice, t.gas, t.gasCurrency,
                    t.gasFeeRecipient, t.to, t.value, t.data,
                    IF t.r = 0 THEN t.v ELSE (t.v - 36) \div 2,
                    -1, -1, -1))

\* SignedEthTx.as_unsigned (413-425), SignedCeloTx.as_unsigned (540-554)
AsUnsigned(t) ==
  UnsignedTx(Fields(UnsignedClass(t.cls), t.nonce, t.gasPrice, t.gas, t.gasCurrency,
                    t.gasFeeRecipient, t.to, t.value, t.data,
                    IF t.r = 0 THEN t.v
                    ELSE (t.v - (IF t.v % 2 # 0 THEN 35 ELSE 36)) \div 2,
                    -1, -1, -1))

\* serialize: 455-468 and 581-604 for the signed classes, 199-201 and 317-319
\* for the unsigned ones
Serialize(o) ==
  IF Signed(o.cls) THEN SerializeSigned(o)
  ELSE IF WithNullSignature(o).st # "ok" THEN WithNullSignature(o)
  ELSE SerializeSigned(WithNullSignature(o).val)

\* UnsignedEthTx.sighash (203-209), which UnsignedCeloTx inherits
SighashUnsigned(u) ==
  IF WithNullSignature(u).st # "ok" THEN WithNullSignature(u)
  ELSE Ok(keccak256(SerializeSigned(WithNullSignature(u).val).val))

\* sighash: SignedEthTx.sighash (474-480), which SignedCeloTx inherits, or 203-209
Sighash(o) ==
  IF Signed(o.cls) THEN SighashUnsigned(AsUnsigned(o).val) ELSE SighashUnsigned(o)

\* SignedEthTx.deserialize (427-446) and SignedCeloTx.deserialize (556-579)
\* of the encoding of a list of byte strings: raws[5] needs six items
\* (IndexError), and (v, r, s) = [...] needs raws[6:] to have three (ValueError).
DeserializeSigned(cls, raw) ==
  LET raws == Decode(raw).xs
  IN IF Len(raws) < 6 THEN Raise("IndexError")
     ELSE IF Len(raws) - 6 # 3 THEN Raise("ValueError")
     ELSE SignedTx(Fields(cls,
            be2i_rlp(raws[1].b), be2i_rlp(raws[2].b), be2i_rlp(raws[3].b),
            IF ~Celo(cls) THEN NoStr
            ELSE IF raws[4].b = <<>> THEN None ELSE Hex0x(raws[4].b),
            IF ~Celo(cls) THEN NoStr
            ELSE IF raws[5].b = <<>> THEN None ELSE Hex0x(raws[5].b),
            Hex0x(raws[4].b), be2i_rlp(raws[5].b), raws[6].b, -1,
            be2i_rlp(raws[7].b), be2i_rlp(raws[8].b), be2i_rlp(raws[9].b)))

\* cls.deserialize(raw): the above, or 189-193 and 311-315
Deserialize(cls, raw) ==
  IF Signed(cls) THEN DeserializeSigned(cls, raw)
  ELSE IF DeserializeSigned(SignedClass(cls), raw).st # "ok"
  THEN DeserializeSigned(SignedClass(cls), raw)
  ELSE AsUnsigned(DeserializeSigned(SignedClass(cls), raw).val)

\* isinstance(other, type(self)): the Celo classes derive from the Eth ones
IsInstance(ocls, cls) ==
  ocls = cls \/ (Celo(ocls) /\ ~Celo(cls) /\ Signed(ocls) = Signed(cls))

\* __eq__: 406-411 for both signed classes, 174-187, 294-309
Eq(a, b) ==
  IF ~IsInstance(b.cls, a.cls) THEN Raise("TypeError")
  ELSE IF Signed(a.cls) THEN Ok(a.tx_id = b.tx_id)
  ELSE Ok(/\ a.nonce = b.nonce /\ a.gasPrice = b.gasPrice /\ a.gas = b.gas
          /\ Celo(a.cls) => (/\ a.gasCurrency = b.gasCurrency
                             /\ a.gasFeeRecipient = b.gasFeeRecipient)
          /\ a.to = b.to /\ a.value = b.value /\ a.data = b.data
          /\ a.chainId = b.chainId)

\* UnsignedEthTx.with_chainId (223-231), which UnsignedCeloTx inherits
WithChainId(u, id) ==
  UnsignedTx(Fields("UnsignedEthTx", u.nonce, u.gasPrice, u.gas, NoStr, NoStr,
                    u.to, u.value, u.data, id, -1, -1, -1))

\* crypto.sign (94-101) hashes the message it is given and hands the digest
\* to sign_hash (87-91).
SignedDigest(message) == keccak256(message)

NoSig == [digest |-> <<>>, key |-> 0, v |-> 0, r |-> 0, s |-> 0]

\* UnsignedEthTx.sign (211-221) and UnsignedCeloTx.sign (321-333), with
\* get_signature (195-197), given what the signing library returned.
Sign(u, sig) ==
  SignedTx(Fields(SignedClass(u.cls), u.nonce, u.gasPrice, u.gas, u.gasCurrency,
                  u.gasFeeRecipient, u.to, u.value, u.data, -1, sig.v, sig.r, sig.s))

\* crypto.recover_pubkey (80-84): the key that made the signature over this
\* digest, and for any other digest or signature a key that is no caller's.
recover_pubkey(vrs, digest, made_sig) ==
  IF made_sig # NoSig /\ vrs = <<made_sig.v, made_sig.r, made_sig.s>>
       /\ digest = made_sig.digest
  THEN priv_to_pub(made_sig.key)
  ELSE priv_to_pub(0)

\* SignedEthTx.recover_sender (448-453)
RecoverSender(t, made_sig) ==
  IF Sighash(t).st # "ok" THEN Sighash(t)
  ELSE Ok(pub_to_addr(recover_pubkey(<<t.v, t.r, t.s>>, Sighash(t).val, made_sig)))

\* __setattr__ without the test of line 22.
SetAttrUnchecked(o, key, value) == [st |-> "ok", obj |-> [o EXCEPT ![key] = value]]

\* Immutable.__setattr__ (20-24)
SetAttr(o, key, value) ==
  IF o.immutable THEN [st |-> "TypeError", obj |-> o]
  ELSE [st |-> "ok", obj |-> [o EXCEPT ![key] = value]]

\* The transactions a caller constructs: integers on both sides of a byte
\* boundary, addresses in either case and empty, calldata empty, short and
\* long enough for the long list form, and for the signed classes either a
\* null signature (v = chainId, r = 0) or v = 35 + 2c, 36 + 2c with r # 0.
MaxChain == 2       \* chain ids 0..MaxChain
MaxKey == 2         \* private keys 1..MaxKey

Amounts == {0, 255, 256}

Addresses == {<<"0", "x">>, <<"0", "x", "a", "B", "0", "1">>}

Calldata == {<<>>, <<128, 1>>, Fill(56, 0)}

OptionalAddresses == {None, <<"0", "x", "c", "D">>}

SigValues == {1, 256}

Signatures ==
  UNION {{<<c, 0, 0>>} \cup {<<v, r, 1>> : v \in {35 + 2 * c, 36 + 2 * c}, r \in SigValues}
         : c \in 0..MaxChain}

BaseFields(cls, gc, gfr, chainId, vrs) ==
  {Fields(cls, nonce, 1, gas, gc, gfr, to, value, data, chainId, vrs[1], vrs[2], vrs[3]) :
     nonce \in Amounts, gas \in {0, 256}, to \in Addresses, value \in {0, 256},
     data \in Calldata}

Constructed(S) == {SignedTx(f).val : f \in {g \in S : SignedTx(g).st = "ok"}}

TxInputs ==
  Constructed(UNION {BaseFields("SignedEthTx", NoStr, NoStr, -1, vrs) : vrs \in Signatures})
  \cup UNION {{UnsignedTx(f).val : f \in BaseFields("UnsignedEthTx", NoStr, NoStr, c, <<-1, -1, -1>>)}
              : c \in 0..MaxChain}
  \cup Constructed(UNION {BaseFields("SignedCeloTx", gc, None, -1, vrs) :
                            gc \in OptionalAddresses, vrs \in Signatures})
  \cup UNION {{UnsignedTx(f).val : f \in BaseFields("UnsignedCeloTx", None, gfr, c, <<-1, -1, -1>>)}
              : gfr \in OptionalAddresses, c \in 0..MaxChain}

InitTx ==
  /\ InitRPC /\ InitRLPIdle /\ InitAbiIdle
  /\ tx \in TxInputs
  /\ txOut = NoCall
  /\ lastSig = NoSig

Res(op, r) == [op |-> op, st |-> r.st, val |-> r.val]

\* tx.serialize()
TxSerialize ==
  /\ txOut.op = "none"
  /\ txOut' = Res("serialize", Serialize(tx))
  /\ UNCHANGED <<tx, lastSig, rlpVars, abiVars, wsVars, httpVars>>

\* type(tx).deserialize(raw) of what serialize() returned
TxDeserialize ==
  /\ txOut.op = "serialize" /\ txOut.st = "ok"
  /\ txOut' = Res("deserialize", Deserialize(tx.cls, txOut.val))
  /\ UNCHANGED <<tx, lastSig, rlpVars, abiVars, wsVars, httpVars>>

\* serialize() of what deserialize() returned
TxReserialize ==
  /\ txOut.op = "deserialize" /\ txOut.st = "ok"
  /\ txOut' = Res("reserialize", Serialize(txOut.val))
  /\ UNCHANGED <<tx, lastSig, rlpVars, abiVars, wsVars, httpVars>>

\* tx.sighash()
TxSighash ==
  /\ txOut.op = "none"
  /\ txOut' = Res("sighash", Sighash(tx))
  /\ UNCHANGED <<tx, lastSig, rlpVars, abiVars, wsVars, httpVars>>

\* tx.as_unsigned(), which the signed classes have
TxAsUnsigned ==
  /\ txOut.op = "none" /\ Signed(tx.cls)
  /\ txOut' = Res("as_unsigned", AsUnsigned(tx))
  /\ UNCHANGED <<tx, lastSig, rlpVars, abiVars, wsVars, httpVars>>

\* tx.with_chainId(id), which the unsigned classes have
TxWithChainId(id) ==
  /\ txOut.op = "none" /\ ~Signed(tx.cls)
  /\ txOut' = Res("with_chainId", WithChainId(tx, id))
  /\ UNCHANGED <<tx, lastSig, rlpVars, abiVars, wsVars, httpVars>>

\* tx.sign(key). sign_hash (87-91) returns sig.vrs() of the signing library,
\* which is not part of this repository: v is the recovery id 0 or 1 and r, s
\* are not zero, or the call raises where vrs is not callable.
TxSign(key, lib, r, s) ==
  /\ txOut.op = "none" /\ ~Signed(tx.cls)
  /\ IF Sighash(tx).st # "ok"
     THEN txOut' = Res("sign", Sighash(tx)) /\ UNCHANGED lastSig
     ELSE IF lib = "TypeError"
     THEN txOut' = Res("sign", Raise("TypeError")) /\ UNCHANGED lastSig
     ELSE /\ lastSig' = [digest |-> SignedDigest(Sighash(tx).val), key |-> key,
                         v |-> IF lib = "v0" THEN 0 ELSE 1, r |-> r, s |-> s]
          /\ txOut' = Res("sign", Sign(tx, lastSig'))
  /\ UNCHANGED <<tx, rlpVars, abiVars, wsVars, httpVars>>

\* recover_sender() of the transaction sign() returned
TxRecoverSender ==
  /\ txOut.op = "sign" /\ txOut.st = "ok"
  /\ txOut' = Res("recover_sender", RecoverSender(txOut.val, lastSig))
  /\ UNCHANGED <<tx, lastSig, rlpVars, abiVars, wsVars, httpVars>>

\* tx.<key> = value, with a value the attribute does not have
NewValue(key) ==
  CASE key = "nonce" -> 7
    [] key = "data" -> <<7>>
    [] key = "to" -> <<"0", "x", "7", "7">>
    [] key = "tx_id" -> <<7>>
    [] key = "immutable" -> FALSE

TxSetAttr(key) ==
  /\ txOut.op = "none"
  /\ tx' = SetAttr(tx, key, NewValue(key)).obj
  /\ txOut' = [op |-> "setattr", st |-> SetAttr(tx, key, NewValue(key)).st, val |-> Absent]
  /\ UNCHANGED <<lastSig, rlpVars, abiVars, wsVars, httpVars>>

NextTx ==
  \/ TxSerialize
  \/ TxDeserialize
  \/ TxReserialize
  \/ TxSighash
  \/ TxAsUnsigned
  \/ \E id \in 0..MaxChain : TxWithChainId(id)
  \/ \E key \in 1..MaxKey : \E lib \in {"TypeError", "v0", "v1"} :
       \E r \in SigValues : TxSign(key, lib, r, 1)
  \/ TxRecoverSender
  \/ \E key \in {"nonce", "data", "to", "tx_id", "immutable"} : TxSetAttr(key)

SpecTx == InitTx /\ [][NextTx]_vars

\* ------------------------------------------------------------------ abi.py
\* A type string is kept as its parts: the word before the digits, the number
\* the digits spell (-1 for none) and the array suffixes from left to right,
\* 0 for "[]" and N for "[N]". 'uint256[2][]' is uint, 256, <<2, 0>>.
MaxItems == 2       \* items in a dynamic array of an input

SLOT == 32

Type(base, n) == [base |-> base, n |-> n, dims |-> <<>>]

ArrayOf(t, k) == [t EXCEPT !.dims = Append(@, k)]

\* A python value. Every kind has the same fields, those not in use being
\* empty: an int or bool in i, bytes in b, a str as its code points in b or,
\* for an address, as its characters in s, a list in xs.
PyInt(i) == [k |-> "int", i |-> i, b |-> <<>>, s |-> <<>>, xs |-> <<>>]

PyBool(x) == [k |-> "bool", i |-> IF x THEN 1 ELSE 0, b |-> <<>>, s |-> <<>>, xs |-> <<>>]

PyBytes(b) == [k |-> "bytes", i |-> 0, b |-> b, s |-> <<>>, xs |-> <<>>]

PyStr(cps) == [k |-> "str", i |-> 0, b |-> cps, s |-> <<>>, xs |-> <<>>]

PyAddr(s) == [k |-> "str", i |-> 0, b |-> <<>>, s |-> s, xs |-> <<>>]

PyList(xs) == [k |-> "list", i |-> 0, b |-> <<>>, s |-> <<>>, xs |-> xs]

Max(a, b) == IF a > b THEN a ELSE b

\* r if it raised, else F of what it returned
Then(r, F(_)) == IF r.st = "ok" THEN F(r.val) ELSE r

\* [f(x) for x in ...]: the list, or the first exception
All(rs) ==
  IF \E i \in 1..Len(rs) : rs[i].st # "ok"
  THEN rs[CHOOSE i \in 1..Len(rs) : rs[i].st # "ok" /\ \A j \in 1..(i - 1) : rs[j].st = "ok"]
  ELSE Ok([i \in 1..Len(rs) |-> rs[i].val])

\* type_str[-2:] == '[]'
EndsDynamic(t) == t.dims # <<>> /\ t.dims[Len(t.dims)] = 0

\* '[' in type_str
HasBracket(t) == t.dims # <<>>

\* _inner_type (25-27), for a type with a bracket
_inner_type(t) == [t EXCEPT !.dims = SubSeq(@, 1, Len(@) - 1)]

\* _array_length (30-41); no type 'T[1]' is given here, so line 40 is not reached
_array_length(t) == IF ~HasBracket(t) THEN 0 ELSE t.dims[Len(t.dims)]

\* _is_dynamic (170-174)
_is_dynamic(t) ==
  \/ \E i \in 1..Len(t.dims) : t.dims[i] = 0
  \/ t.base = "string"
  \/ t.base = "bytes" /\ t.n = -1 /\ HasBracket(t)
  \/ t = Type("bytes", -1)

\* _is_complex (177-181)
_is_complex(t) ==
  \/ \E i \in 1..(Len(t.dims) - 1) : t.dims[i] = 0 /\ t.dims[i + 1] = 0
  \/ t.base = "string" /\ HasBracket(t) /\ t.dims[1] = 0
  \/ t.base = "bytes" /\ t.n = -1 /\ HasBracket(t) /\ t.dims[1] = 0

\* number.to_bytes(32, 'big', signed=signed) for a number below 2^31 in size,
\* which always fits: the four low bytes, and the sign in the 28 above them
to_bytes(number, signed) ==
  IF number < 0 /\ ~signed THEN Raise("OverflowError")
  ELSE Ok([i \in 1..SLOT |->
             IF i <= SLOT - 4 THEN (IF number < 0 THEN 255 ELSE 0)
             ELSE (number \div (256 ^ (SLOT - i))) % 256])

\* int.from_bytes(b, 'big', signed=signed)
from_bytes(b, signed) ==
  IF signed /\ b # <<>> /\ b[1] >= 128
  THEN -(FromBytes([i \in 1..Len(b) |-> 255 - b[i]]) + 1)
  ELSE FromBytes(b)

\* arg.encode('utf8') for code points below 2048
Utf8(cps) ==
  Join([i \in 1..Len(cps) |->
          IF cps[i] < 128 THEN <<cps[i]>>
          ELSE <<192 + (cps[i] \div 64), 128 + (cps[i] % 64)>>])

\* b.decode('utf8')
RECURSIVE DecodeUtf8(_)
DecodeUtf8(b) ==
  IF b = <<>> THEN Ok(<<>>)
  ELSE IF b[1] < 128
  THEN Then(DecodeUtf8(Tail(b)), LAMBDA r : Ok(<<b[1]>> \o r))
  ELSE IF b[1] >= 194 /\ b[1] < 224 /\ Len(b) >= 2 /\ b[2] >= 128 /\ b[2] < 192
  THEN Then(DecodeUtf8(SubSeq(b, 3, Len(b))),
            LAMBDA r : Ok(<<(b[1] - 192) * 64 + (b[2] - 128)>> \o r))
  ELSE Raise("UnicodeDecodeError")

\* _encode_uint (84-88)
_encode_uint(number) ==
  IF number.k \notin {"int", "bool"} \/ number.i < 0 THEN Raise("ABIEncodingError")
  ELSE to_bytes(number.i, FALSE)

\* single_item_decoder (12-22) around _decode_uint (91-94)
_decode_uint(b) ==
  IF Len(b) # SLOT THEN Raise("ABIEncodingError") ELSE Ok(from_bytes(b, FALSE))

\* _encode_int (97-101)
_encode_int(number) ==
  IF number.k \notin {"int", "bool"} THEN Raise("ABIEncodingError")
  ELSE to_bytes(number.i, TRUE)

\* _decode_int (104-107)
_decode_int(b) ==
  IF Len(b) # SLOT THEN Raise("ABIEncodingError") ELSE Ok(from_bytes(b, TRUE))

\* _encode_fixed_bytes (110-114)
_encode_fixed_bytes(b) ==
  IF b.k # "bytes" THEN Raise("ABIEncodingError")
  ELSE Ok(b.b \o Fill(SLOT - (Len(b.b) % SLOT), 0))

\* _decode_fixed_bytes (117-120): int(type_str[5:]) is the number of the type
_decode_fixed_bytes(b, t) ==
  IF Len(b) # SLOT THEN Raise("ABIEncodingError") ELSE Ok(Slice(b, 0, t.n))

\* _encode_dynamic_bytes (123-126)
_encode_dynamic_bytes(b) ==
  Then(_encode_fixed_bytes(b),
       LAMBDA payload : Ok(_encode_uint(PyInt(Len(b.b))).val \o payload))

\* _decode_dynamic_bytes (129-132)
_decode_dynamic_bytes(b) ==
  Then(_decode_uint(Slice(b, 0, SLOT)), LAMBDA length : Ok(Slice(b, SLOT, SLOT + length)))

\* _encode_str (135-139)
_encode_str(arg) ==
  IF arg.k # "str" THEN Raise("ABIEncodingError")
  ELSE _encode_dynamic_bytes(PyBytes(Utf8(arg.b)))

\* _decode_str (142-143)
_decode_str(b) == Then(_decode_dynamic_bytes(b), LAMBDA p : DecodeUtf8(p))

\* _encode_address (146-148) for an address of up to 64 hex digits, with or
\* without '0x' before them: the 32 bytes of the number int(arg, 16) are what
\* the digits spell behind zeros
_encode_address(arg) ==
  LET digits == IF Len(arg.s) >= 2 /\ SubSeq(arg.s, 1, 2) = <<"0", "x">>
                THEN From2(arg.s) ELSE arg.s
  IN Ok(FromHex(Fill(2 * SLOT - Len(digits), "0") \o digits))

\* _decode_address (151-153)
_decode_address(b) ==
  IF Len(b) # SLOT THEN Raise("ABIEncodingError")
  ELSE Ok(Hex0x(SubSeq(b, SLOT - 19, SLOT)))

\* _join_lists (44-46) of (head, tail) pairs: the sums by column
_join_lists(a) ==
  IF a = <<>> THEN <<>>
  ELSE <<SumSeq([i \in 1..Len(a) |-> a[i][1]]), SumSeq([i \in 1..Len(a) |-> a[i][2]])>>

\* _slots_to_encode (49-81)
RECURSIVE _slots_to_encode(_, _)
_slots_to_encode(t, arg) ==
  IF t = Type("string", -1)
  THEN Then(_encode_str(arg), LAMBDA e : Ok(<<1, Len(e) \div SLOT>>))
  ELSE IF t = Type("bytes", -1)
  THEN Then(_encode_dynamic_bytes(arg), LAMBDA e : Ok(<<1, Len(e) \div SLOT>>))
  ELSE IF EndsDynamic(t)
  THEN Then(All([i \in 1..Len(arg.xs) |-> _slots_to_encode(_inner_type(t), arg.xs[i])]),
            LAMBDA u : Ok(<<1, SumSeq(_join_lists(u)) + 1>>))
  ELSE IF HasBracket(t)
  THEN IF Len(arg.xs) # _array_length(t) THEN Raise("ABIEncodingError")
       ELSE Then(All([i \in 1..Len(arg.xs) |-> _slots_to_encode(_inner_type(t), arg.xs[i])]),
                 LAMBDA u : Ok(<<_join_lists(u)[1], SumSeq(Tail(_join_lists(u)))>>))
  ELSE Ok(<<1, 0>>)

\* what encode returns: (head, tail)
HeadTail(h, tl) == [head |-> h, tail |-> tl]

\* _encode_offset (252-254)
_encode_offset(head_size, tail_pos) == _encode_uint(PyInt((tail_pos + head_size) * SLOT))

\* encode (205-249), _encode_dynamic_array (156-159), _encode_fixed_array
\* (184-187) and encode_many (257-281)
RECURSIVE encode(_, _), encode_many(_, _), _encode_dynamic_array(_, _), _encode_fixed_array(_, _)
_encode_dynamic_array(t, arg) ==
  Then(encode_many([i \in 1..Len(arg.xs) |-> _inner_type(t)], arg.xs),
       LAMBDA e : Ok(_encode_uint(PyInt(Len(arg.xs))).val \o e))

_encode_fixed_array(t, arg) ==
  Then(All([i \in 1..Len(arg.xs) |-> encode(_inner_type(t), arg.xs[i])]),
       LAMBDA es : Ok(Join([i \in 1..Len(es) |-> es[i].head])))

encode(t, arg) ==
  IF t = Type("address", -1)
  THEN Then(_encode_address(arg), LAMBDA h : Ok(HeadTail(h, <<>>)))
  ELSE IF t = Type("string", -1)
  THEN Then(_encode_str(arg), LAMBDA e : Ok(HeadTail(<<>>, e)))
  ELSE IF t = Type("bytes", -1)
  THEN Then(_encode_dynamic_bytes(arg), LAMBDA e : Ok(HeadTail(<<>>, e)))
  ELSE IF EndsDynamic(t)
  THEN Then(_encode_dynamic_array(t, arg), LAMBDA e : Ok(HeadTail(<<>>, e)))
  ELSE IF HasBracket(t)
  THEN Then(_encode_fixed_array(t, arg), LAMBDA h : Ok(HeadTail(h, <<>>)))
  ELSE IF t.base = "bytes" /\ t.n < 32
  THEN IF Len(arg.b) > 32 THEN Raise("ABIEncodingError")
       ELSE Then(_encode_fixed_bytes(arg), LAMBDA h : Ok(HeadTail(h, <<>>)))
  ELSE IF t.base = "uint"
  THEN Then(_encode_uint(arg), LAMBDA h : Ok(HeadTail(h, <<>>)))
  ELSE IF t.base = "int"
  THEN Then(_encode_int(arg), LAMBDA h : Ok(HeadTail(h, <<>>)))
  ELSE IF t = Type("bool", -1)
  THEN IF arg.k # "bool" THEN Raise("ABIEncodingError")
       ELSE Then(_encode_uint(PyInt(arg.i)), LAMBDA h : Ok(HeadTail(h, <<>>)))
  ELSE IF t.base \in {"fixed", "ufixed"} THEN Raise("NotImplementedError")
  ELSE Raise("ValueError")

encode_many(type_list, arg_list) ==
  LET n == IF Len(type_list) < Len(arg_list) THEN Len(type_list) ELSE Len(arg_list)
      slot_usage == All([i \in 1..n |-> _slots_to_encode(type_list[i], arg_list[i])])
      encoded == All([i \in 1..n |-> encode(type_list[i], arg_list[i])])
      head_size == SumSeq([i \in 1..n |-> slot_usage.val[i][1]])
      tail_pos(i) == SumSeq([j \in 1..(i - 1) |-> slot_usage.val[j][2]])
  IN IF slot_usage.st # "ok" THEN slot_usage
     ELSE IF encoded.st # "ok" THEN encoded
     ELSE Ok(Join([i \in 1..n |->
                     IF encoded.val[i].head = <<>>
                     THEN _encode_offset(head_size, tail_pos(i)).val
                     ELSE encoded.val[i].head])
             \o Join([i \in 1..n |-> encoded.val[i].tail]))

\* decode (291-313), _decode_dynamic_array (162-167), _decode_fixed_array
\* (190-202) and decode_many (316-353); DecodeHead is the loop 329-352 from
\* type_pos on
RECURSIVE decode(_, _), decode_many(_, _), _decode_dynamic_array(_, _), _decode_fixed_array(_, _), DecodeHead(_, _, _, _)
_decode_dynamic_array(t, b) ==
  Then(_decode_uint(Slice(b, 0, SLOT)),
       LAMBDA length : Then(decode_many([i \in 1..length |-> _inner_type(t)],
                                        Slice(b, SLOT, Len(b))),
                            LAMBDA vs : Ok(PyList(vs))))

\* range(length) is the argument of _slots_to_encode at line 196
_decode_fixed_array(t, b) ==
  IF _is_complex(t) THEN Raise("ABIEncodingError")
  ELSE LET length == _array_length(t)
           inner == _inner_type(t)
       IN Then(_slots_to_encode(inner, PyList([i \in 1..length |-> PyInt(i - 1)])),
               LAMBDA u :
                 LET item_len == SLOT * u[1]
                     count == (Len(b) + item_len - 1) \div item_len
                 IN Then(All([i \in 1..count |->
                                decode(inner, Slice(b, (i - 1) * item_len, i * item_len))]),
                         LAMBDA vs : Ok(PyList(vs))))

decode(t, b) ==
  IF EndsDynamic(t) THEN _decode_dynamic_array(t, b)
  ELSE IF HasBracket(t) THEN _decode_fixed_array(t, b)
  ELSE IF t = Type("address", -1)
  THEN Then(_decode_address(Slice(b, 0, SLOT)), LAMBDA s : Ok(PyAddr(s)))
  ELSE IF t.base = "string" THEN Then(_decode_str(b), LAMBDA s : Ok(PyStr(s)))
  ELSE IF t.base = "bytes"
  THEN IF t = Type("bytes", -1)
       THEN Then(_decode_dynamic_bytes(b), LAMBDA x : Ok(PyBytes(x)))
       ELSE Then(_decode_fixed_bytes(Slice(b, 0, SLOT), t), LAMBDA x : Ok(PyBytes(x)))
  ELSE IF t.base = "uint" THEN Then(_decode_uint(Slice(b, 0, SLOT)), LAMBDA x : Ok(PyInt(x)))
  ELSE IF t.base = "int" THEN Then(_decode_int(Slice(b, 0, SLOT)), LAMBDA x : Ok(PyInt(x)))
  ELSE IF t = Type("bool", -1) THEN Ok(PyBool(Slice(b, SLOT - 1, SLOT) = <<1>>))
  ELSE IF t.base \in {"fixed", "ufixed"} THEN Raise("NotImplementedError")
  ELSE Raise("ValueError")

DecodeHead(type_list, b, type_pos, head_pos) ==
  LET array_head_slots == SumSeq([i \in 1..Len(type_list) |->
                                    Max(0, _array_length(type_list[i]) - 1)])
      head_size == Len(type_list) + array_head_slots
  IN IF ~(head_pos < head_size) THEN Ok(<<>>)
     ELSE LET outer == type_list[type_pos]
              array_length == _array_length(outer)
              head_items == Max(1, array_length)
              t == IF array_length = 0 THEN outer ELSE _inner_type(outer)
              item(i) ==
                IF head_pos + i > Len(b) \div SLOT THEN Raise("IndexError")
                ELSE LET h == Slice(b, (head_pos + i - 1) * SLOT, (head_pos + i) * SLOT)
                     IN IF ~_is_dynamic(t) THEN decode(t, h)
                        ELSE Then(_decode_uint(h),
                                  LAMBDA off : decode(t, Slice(b, (off \div SLOT) * SLOT, Len(b))))
              dec == All([i \in 1..head_items |-> item(i)])
          IN IF dec.st # "ok" THEN dec
             ELSE Then(DecodeHead(type_list, b, type_pos + 1, head_pos + head_items),
                       LAMBDA rest : Ok((IF array_length # 0 THEN <<PyList(dec.val)>>
                                         ELSE dec.val) \o rest))

decode_many(type_list, b) ==
  IF Len(b) % SLOT # 0 THEN Raise("ValueError")
  ELSE DecodeHead(type_list, b, 1, 0)

\* The calls made: types of every kind with values on both sides of each
\* limit, arrays of them with up to MaxItems items, arrays of arrays, and
\* argument lists that mix static and dynamic items.
UintN(n) == Type("uint", n)

IntN(n) == Type("int", n)

BytesN(n) == Type("bytes", n)

Text(n, c) == PyStr(Fill(n, c))

ScalarCases ==
  {<<UintN(8), PyInt(i)>> : i \in {0, 255, 256, -1}}
    \cup {<<UintN(16), PyInt(i)>> : i \in {65535, 65536}}
    \cup {<<UintN(256), PyInt(i)>> : i \in {0, 5, 16777216}}
    \cup {<<IntN(8), PyInt(i)>> : i \in {-129, -128, 127, 128}}
    \cup {<<IntN(256), PyInt(i)>> : i \in {-1, 1}}
    \cup {<<Type("bool", -1), PyBool(x)>> : x \in BOOLEAN}
    \cup {<<Type("address", -1), PyAddr(s)>> :
            s \in {Hex0x(Fill(20, 171)), <<"0", "x">> \o Fill(40, "A"), Fill(40, "a")}}
    \cup {<<BytesN(n), PyBytes(Fill(n, 1))>> : n \in {0, 1, 4, 31, 32, 33}}
    \cup {<<BytesN(4), PyBytes(<<1, 2>>)>>}
    \cup {<<Type("bytes", -1), PyBytes(Fill(n, 1))>> : n \in {0, 1, 31, 32, 33}}
    \cup {<<Type("string", -1), s>> : s \in {Text(0, 97), Text(1, 97), Text(32, 97),
                                           PyStr(<<104, 233>>)}}

\* two values of an item type
Elements(t) ==
  IF t.base \in {"uint", "int"} THEN {PyInt(1), PyInt(IF t.base = "int" THEN -2 ELSE 2)}
  ELSE IF t.base = "bool" THEN {PyBool(TRUE), PyBool(FALSE)}
  ELSE IF t.base = "address" THEN {PyAddr(Hex0x(Fill(20, 171))), PyAddr(Hex0x(Fill(20, 1)))}
  ELSE IF t.base = "string" THEN {Text(0, 97), Text(2, 98)}
  ELSE IF t.n = -1 THEN {PyBytes(<<>>), PyBytes(<<1, 2>>)}
  ELSE {PyBytes(Fill(t.n, 1)), PyBytes(Fill(t.n, 2))}

RECURSIVE ValuesOf(_)
ValuesOf(t) ==
  IF ~HasBracket(t) THEN Elements(t)
  ELSE LET V == ValuesOf(_inner_type(t))
       IN IF EndsDynamic(t)
          THEN UNION {{PyList(xs) : xs \in [1..n -> V]} : n \in 0..MaxItems}
          ELSE {PyList(xs) : xs \in [1.._array_length(t) -> V]}

ItemTypes ==
  {UintN(256), IntN(8), Type("bool", -1), Type("address", -1), BytesN(4),
   Type("bytes", -1), Type("string", -1)}

ArrayTypes ==
  UNION {{ArrayOf(t, 2), ArrayOf(t, 3), ArrayOf(t, 0)} : t \in ItemTypes}
    \cup UNION {{ArrayOf(ArrayOf(t, j), k) : j, k \in {0, 2}}
                : t \in {UintN(256), Type("string", -1)}}

ArgumentLists ==
  {[types |-> <<UintN(256), ArrayOf(UintN(256), 0)>>,
    args |-> <<PyInt(5), PyList(<<PyInt(1), PyInt(2), PyInt(3)>>)>>],
   [types |-> <<Type("bool", -1), Type("string", -1), ArrayOf(UintN(8), 2), Type("bytes", -1)>>,
    args |-> <<PyBool(FALSE), Text(1, 120), PyList(<<PyInt(1), PyInt(2)>>),
               PyBytes(<<121, 122>>)>>],
   [types |-> <<Type("string", -1), UintN(256), Type("bytes", -1)>>,
    args |-> <<Text(2, 97), PyInt(7), PyBytes(Fill(32, 1))>>],
   [types |-> <<ArrayOf(UintN(256), 2), ArrayOf(Type("string", -1), 0), IntN(8)>>,
    args |-> <<PyList(<<PyInt(1), PyInt(2)>>), PyList(<<Text(1, 97), Text(33, 98)>>),
               PyInt(-1)>>]}

AbiInputs ==
  {[types |-> <<c[1]>>, args |-> <<c[2]>>] : c \in ScalarCases}
    \cup UNION {{[types |-> <<t>>, args |-> <<v>>] : v \in ValuesOf(t)} : t \in ArrayTypes}
    \cup ArgumentLists

InitAbi ==
  /\ InitRPC /\ InitRLPIdle /\ InitTxIdle
  /\ abiIn \in AbiInputs
  /\ abiOut = NoCall

\* encode_many(types, args)
AbiEncodeMany ==
  /\ abiOut.op = "none"
  /\ abiOut' = Res("encode_many", encode_many(abiIn.types, abiIn.args))
  /\ UNCHANGED <<abiIn, rlpVars, txVars, wsVars, httpVars>>

\* decode_many(types, blob) of the blob encode_many returned
AbiDecodeMany ==
  /\ abiOut.op = "encode_many" /\ abiOut.st = "ok"
  /\ abiOut' = Res("decode_many", decode_many(abiIn.types, abiOut.val))
  /\ UNCHANGED <<abiIn, rlpVars, txVars, wsVars, httpVars>>

\* encode(type, arg) of a single item
AbiEncode ==
  /\ abiOut.op = "none" /\ Len(abiIn.types) = 1
  /\ abiOut' = Res("encode", encode(abiIn.types[1], abiIn.args[1]))
  /\ UNCHANGED <<abiIn, rlpVars, txVars, wsVars, httpVars>>

\* decode(type, b) of the part encode returned: the head of a static item, the
\* tail of a dynamic one
AbiDecode ==
  /\ abiOut.op = "encode" /\ abiOut.st = "ok"
  /\ abiOut' = Res("decode", decode(abiIn.types[1],
                     IF abiOut.val.head = <<>> THEN abiOut.val.tail ELSE abiOut.val.head))
  /\ UNCHANGED <<abiIn, rlpVars, txVars, wsVars, httpVars>>

NextAbi ==
  \/ AbiEncodeMany
  \/ AbiDecodeMany
  \/ AbiEncode
  \/ AbiDecode

SpecAbi == InitAbi /\ [][NextAbi]_vars

\* ------------------------------------------------------------------ claims
\* A step in which the demultiplexer of session s handles the frame at the
\* head of its connection, and what that step completes or feeds.
Handled(s) == wire[s] # <<>> /\ wire'[s] = Tail(wire[s])

ChangedFuts == {f \in 1..Len(futs) : futs'[f] # futs[f]}

ChangedQueues == {q \in 1..Len(queues) : queues'[q] # queues[q]}

\* C1: every payload the demultiplexer handles is delivered to exactly one
\* destination, the completion of a request id present in inflight or the
\* queue of a subscription id present in subscriptions, never to two and never
\* to one outside the two maps.
C1_ExactlyOneDestination ==
  [][\A s \in Sess : Handled(s) =>
       LET p == Head(wire[s])
       IN /\ Cardinality(ChangedFuts) + Cardinality(ChangedQueues) = 1
          /\ \A f \in ChangedFuts :
               "id" \in p.keys /\ Has(inflight, p.id) /\ Get(inflight, p.id).fut = f
          /\ \A q \in ChangedQueues :
               Has(subscriptions, p.sub) /\ Get(subscriptions, p.sub).queue = q]_vars

\* C2: request ids issued by a session are strictly increasing, and after a
\* handover every id issued by the new session is greater than every id the
\* prior session issued: the new session starts from max(prior inflight ids) + 1.
C2_IdsIncrease ==
  /\ \A i, j \in 1..Len(calls) :
       /\ (i < j /\ calls[i].sess = calls[j].sess) => calls[i].id < calls[j].id
       /\ calls[i].sess < calls[j].sess => calls[i].id < calls[j].id
  /\ \A b \in Sess \ {1} : made[b] =>
       /\ pendingOut[b - 1].st = "ok"
       /\ \A n \in 1..Len(calls) :
            /\ calls[n].sess = b => calls[n].id >= pendingOut[b - 1].next
            /\ calls[n].sess < b => calls[n].id < pendingOut[b - 1].next

\* a resumed session has issued two ids
C2_Witness ==
  \E i, j \in 1..Len(calls) : i < j /\ calls[i].sess = 2 /\ calls[j].sess = 2

C4_CloseCancelsTasks ==
  [][\A s \in Sess :
       /\ (callerClose[s] = "wsclose" /\ callerClose'[s] # "wsclose") =>
            /\ callerClose'[s] = "returned"
            /\ pingTask'[s] # "running"
            /\ handleTask'[s] \notin {"running", "closing"}
       /\ (~connected[s] /\ callerClose[s] \in {"returned", "raised"} /\ Handled(s))
            => queues' = queues]_vars

\* C5: close() on a session that is already closed, or on a WebSocket session
\* never opened, returns without closing the socket again, without cancelling
\* a task and without changing the session.
C5_CloseIdempotent ==
  [][/\ \A s \in Sess :
          ((~hasWs[s] \/ ~connected[s]) /\ callerClose[s] # "wsclose"
             /\ callerClose'[s] # callerClose[s])
          => /\ callerClose'[s] = "returned"
             /\ UNCHANGED <<made, hasWs, connected, ids, wsOpen, wire, pingTask,
                            handleTask, wsCloses, inflight, subscriptions, futs,
                            queues, calls, userCalls, nodeVars, pendingOut>>
     /\ (httpSession = "closed" /\ httpSession' = "closed")
          => UNCHANGED <<httpConnected, httpShut, httpOpens>>]_vars

\* a closed session whose demultiplexer no close() has stopped, with a close()
\* that returned: that close() was called on the closed session
C5_Witness ==
  \E s \in Sess : /\ hasWs[s] /\ ~connected[s] /\ callerClose[s] = "returned"
                  /\ handleTask[s] = "running"

\* C6: whatever the order of the node's replies, the completion of each
\* request resolves with the node's answer to that request's own id.
C6_CorrelatedById ==
  \A n \in 1..Len(calls) :
    LET c == calls[n]
        f == futs[c.fut]
    IN /\ (Done(f) /\ (f.st = "exception" \/ c.method # "eth_subscribe"))
            => f.val = <<c.sess, c.id>>
       /\ \A m \in 1..Len(calls) :
            (m # n /\ Done(f) /\ Done(futs[calls[m].fut])) => futs[calls[m].fut].val # f.val

\* the second of two outstanding requests is resolved before the first
C6_Witness ==
  /\ Len(calls) >= 2
  /\ futs[1].st = "pending" /\ Frame(calls[1]) \in nodeReq[calls[1].sess]
  /\ futs[2].st = "result"

\* Notifications under subscription id k that the demultiplexer of session s
\* has read, and how often x is in queue q.
EventsRead(s, k) ==
  nodeSeq[k] - Cardinality({i \in 1..Len(wire[s]) : wire[s][i].sub = <<k>>})

CountIn(q, x) == Cardinality({i \in 1..Len(q) : q[i] = x})

\* C7: a session built by from_pending resolves the original completion of a
\* re-dispatched request with its own response to the new id, and the original
\* queue of a re-issued subscription receives each event sent under the fresh
\* subscription id exactly once.
C7_Handover ==
  \A n \in 1..Len(calls) :
    LET c == calls[n]
    IN c.sess > 1 =>
         /\ (c.kind = "rpc" /\ c.fut # n /\ c.method = "eth_call" /\ Done(futs[c.fut]))
              => futs[c.fut] = [st |-> "result", val |-> <<c.sess, c.id>>]
         /\ (c.kind = "subscribe" /\ c.queue # n /\ futs[c.fut].st = "result")
              => \A i \in 1..EventsRead(c.sess, futs[c.fut].val[1]) :
                   CountIn(queues[c.queue], <<futs[c.fut].val[1], i>>) = 1

\* C8: within one subscription id the items of a queue are in the order in
\* which the node sent the notifications, whatever else arrived in between.
C8_QueueOrder ==
  \A q \in 1..Len(queues) : \A i, j \in 1..Len(queues[q]) :
    (i < j /\ queues[q][i][1] = queues[q][j][1]) => queues[q][i][2] < queues[q][j][2]

\* a queue holds two events of one subscription, and a response came after them
C8_Witness ==
  \E q \in 1..Len(queues) :
    /\ Len(queues[q]) >= 2 /\ queues[q][1][1] = queues[q][2][1]
    /\ \E n \in 1..Len(calls) : n # q /\ futs[n].st = "result"

\* C9: on a closed session, also one that never issued a request,
\* get_pending() succeeds with the requests whose completions are unresolved,
\* all registered subscriptions and a start id above every id the session
\* issued; on a session marked connected it fails.
C9_GetPending ==
  \A s \in Sess : made[s] =>
    LET r == GetPendingResult(s)
    IN IF connected[s] THEN r.st = "RuntimeError"
       ELSE hasWs[s] =>
              /\ r.st = "ok"
              /\ {r.pending[i] : i \in 1..Len(r.pending)} =
                   {Request(calls[n]) : n \in {m \in 1..Len(calls) : ~Done(futs[calls[m].fut])}}
              /\ r.subs = Values(subscriptions)
              /\ \A n \in 1..Len(calls) : calls[n].sess = s => calls[n].id < r.next

\* C10: a payload with an error field whose id matches a pending request
\* completes that request with an exception carrying the error, one with a
\* matching id and no error completes it with its result; a coroutine awaiting
\* a failed completion does not return.
C10_ErrorCompletes ==
  [][/\ \A s \in Sess : Handled(s) =>
          LET p == Head(wire[s])
          IN ("id" \in p.keys /\ Has(inflight, p.id)
                /\ ~Done(futs[Get(inflight, p.id).fut]))
             => futs'[Get(inflight, p.id).fut] =
                  IF "error" \in p.keys THEN [st |-> "exception", val |-> p.error]
                  ELSE [st |-> "result", val |-> p.result]
     /\ \A n \in 1..Len(calls) :
          calls'[n].pc = "returned" => futs'[calls'[n].fut].st = "result"]_vars

\* a coroutine that awaited a completion failed by the node's error
C10_Witness ==
  \E n \in 1..Len(calls) :
    /\ futs[calls[n].fut] = [st |-> "exception", val |-> <<calls[n].sess, calls[n].id>>]
    /\ calls[n].pc = "failed"

\* decode() was given the whole encoding of rlpItem
Whole == rlpRaw = Encode(rlpItem)

\* C11: decode(encode(x)) = x for every item x, the empty byte string and the
\* empty list included, and encode(decode(b)) = b for every b that encode made.
C11_RoundTrip ==
  /\ (rlpOut.op = "decode" /\ Whole) => rlpOut.val = rlpItem
  /\ (rlpOut.op = "reencode" /\ Whole) => rlpOut.val = rlpRaw

\* the list of an empty list and an empty byte string has gone round
C11_Witness ==
  /\ rlpOut.op = "reencode" /\ Whole
  /\ rlpItem = List(<<List(<<>>), Bytes(<<>>)>>)

\* s is the big-endian form of n without a leading zero byte
MinimalBE(s, n) == FromBytes(s) = n /\ (s = <<>> \/ s[1] # 0)

\* e is prefix, big-endian length, payload for a payload longer than 55
LongForm(e, base, payload) ==
  \E n \in 1..8 :
    /\ Len(e) = 1 + n + Len(payload)
    /\ e[1] = base + n
    /\ MinimalBE(SubSeq(e, 2, 1 + n), Len(payload))
    /\ SubSeq(e, 2 + n, Len(e)) = payload

Canonical(x, e) ==
  IF x.t = "bytes"
  THEN IF Len(x.b) = 1 /\ x.b[1] < 128 THEN e = x.b
       ELSE IF Len(x.b) <= 55 THEN e = <<128 + Len(x.b)>> \o x.b
       ELSE LongForm(e, 183, x.b)
  ELSE LET items == Join([i \in 1..Len(x.xs) |-> Encode(x.xs[i])])
       IN IF Len(items) <= 55 THEN e = <<192 + Len(items)>> \o items
          ELSE LongForm(e, 247, items)

\* C12: encode follows the length-prefix rules for every input; the byte 0x7f
\* encodes as 0x7f, the byte 0x80 as 0x8180 and the integer zero as 0x80.
C12_CanonicalEncoding ==
  rlpOut.op = "encode" =>
    /\ Canonical(rlpItem, rlpOut.val)
    /\ rlpItem = Bytes(<<127>>) => rlpOut.val = <<127>>
    /\ rlpItem = Bytes(<<128>>) => rlpOut.val = <<129, 128>>
    /\ rlpItem = Bytes(i2be_rlp_padded(0)) => rlpOut.val = <<128>>

\* a list whose items take more than 255 bytes has been encoded
C12_Witness ==
  /\ rlpOut.op = "encode" /\ rlpItem.t = "list"
  /\ Len(rlpOut.val) > 256 /\ rlpOut.val[1] = 249

\* The length the first tag of raw declares runs past the end of raw.
Overruns(raw) ==
  raw # <<>> /\ DecodeLength(raw).offset + DecodeLength(raw).len > Len(raw)

\* C13: decode fails with an RLP error when a declared length makes the
\* payload slice run past the end of the input.
C13_TruncatedRejected ==
  (rlpOut.op = "decode" /\ Overruns(rlpRaw)) => rlpOut.st = "RLPError"

\* C14: a SignedEthTx serializes to the RLP list [nonce, gasPrice, gas, to,
\* value, data, v, r, s] with minimal big-endian integers, deserialize of that
\* gives a transaction equal to it, and serializing that one gives the same bytes.
C14_EthRoundTrip ==
  tx.cls = "SignedEthTx" =>
    /\ txOut.op = "serialize" =>
         /\ txOut.st = "ok"
         /\ LET xs == Decode(txOut.val).xs
            IN /\ Len(xs) = 9
               /\ MinimalBE(xs[1].b, tx.nonce) /\ MinimalBE(xs[2].b, tx.gasPrice)
               /\ MinimalBE(xs[3].b, tx.gas) /\ Hex0x(xs[4].b) = Hex0x(FromHex(From2(tx.to)))
               /\ MinimalBE(xs[5].b, tx.value) /\ xs[6].b = tx.data
               /\ MinimalBE(xs[7].b, tx.v) /\ MinimalBE(xs[8].b, tx.r)
               /\ MinimalBE(xs[9].b, tx.s)
    /\ txOut.op = "deserialize" =>
         /\ txOut.st = "ok"
         /\ Eq(txOut.val, tx) = Ok(TRUE)
         /\ <<txOut.val.nonce, txOut.val.gasPrice, txOut.val.gas, txOut.val.value,
              txOut.val.data, txOut.val.v, txOut.val.r, txOut.val.s>>
            = <<tx.nonce, tx.gasPrice, tx.gas, tx.value, tx.data, tx.v, tx.r, tx.s>>
    /\ txOut.op = "reserialize" =>
         txOut.st = "ok" /\ txOut.val = Serialize(tx).val

\* a signed transaction with a two-byte nonce and long calldata has gone round
C14_Witness ==
  /\ tx.cls = "SignedEthTx" /\ txOut.op = "reserialize"
  /\ tx.nonce = 256 /\ Len(tx.data) > 55 /\ tx.r # 0

\* C15: deserialize of a serialized SignedCeloTx succeeds and gives the same
\* eleven fields, gasCurrency and gasFeeRecipient read from list positions 3
\* and 4 and to, value, data, v, r, s from positions 5 to 10.
C15_CeloRoundTrip ==
  (tx.cls = "SignedCeloTx" /\ txOut.op = "deserialize") =>
    /\ txOut.st = "ok"
    /\ <<txOut.val.nonce, txOut.val.gasPrice, txOut.val.gas, txOut.val.gasCurrency,
         txOut.val.gasFeeRecipient, txOut.val.value, txOut.val.data,
         txOut.val.v, txOut.val.r, txOut.val.s>>
       = <<tx.nonce, tx.gasPrice, tx.gas, tx.gasCurrency, tx.gasFeeRecipient,
           tx.value, tx.data, tx.v, tx.r, tx.s>>
    /\ Eq(txOut.val, tx) = Ok(TRUE)

\* The chain id that (v, r) of a signed transaction stands for.
ChainOf(t) ==
  IF t.r = 0 THEN t.v
  ELSE CHOOSE c \in 0..(t.v) : t.v = 35 + 2 * c \/ t.v = 36 + 2 * c

\* C16: the sighash of a signed transaction is the hash of its serialization
\* with (v, r, s) replaced by (chainId, 0, 0), the chain id being c for r # 0
\* and v = 35 + 2c or 36 + 2c, and v itself for r = 0; an unsigned transaction
\* serialized and deserialized through UnsignedEthTx keeps its chain id.
C16_SighashChainId ==
  /\ (Signed(tx.cls) /\ txOut.op = "sighash") =>
       /\ txOut.st = "ok"
       /\ txOut.val = keccak256(
            SerializeSigned([tx EXCEPT !.v = ChainOf(tx), !.r = 0, !.s = 0]).val)
  /\ (Signed(tx.cls) /\ txOut.op = "as_unsigned") =>
       txOut.st = "ok" /\ txOut.val.chainId = ChainOf(tx)
  /\ (tx.cls = "UnsignedEthTx" /\ txOut.op = "deserialize") =>
       /\ txOut.st = "ok"
       /\ txOut.val.chainId = tx.chainId

\* the sighash of a transaction signed for chain 1 with an odd v
C16_Witness ==
  /\ tx.cls = "SignedEthTx" /\ txOut.op = "sighash"
  /\ tx.r # 0 /\ tx.v = 37

\* C17: sign(key) of an unsigned transaction with chain id c > 0 returns a
\* signed transaction with v = 35 + 2c or 36 + 2c, whose as_unsigned() has
\* chain id c.
C17_SignAppliesEIP155 ==
  (txOut.op = "sign" /\ tx.chainId > 0) =>
    /\ txOut.st = "ok"
    /\ txOut.val.v \in {35 + 2 * tx.chainId, 36 + 2 * tx.chainId}
    /\ AsUnsigned(txOut.val).val.chainId = tx.chainId

\* C18: recover_sender() of what sign(key) returned is the address of key,
\* the digest signed being the transaction's sighash.
C18_RecoverSigner ==
  /\ (txOut.op = "sign" /\ txOut.st = "ok") => lastSig.digest = Sighash(tx).val
  /\ txOut.op = "recover_sender" =>
       /\ txOut.st = "ok"
       /\ txOut.val = pub_to_addr(priv_to_pub(lastSig.key))

\* C19: sign() of an unsigned transaction with chain id zero ends with an
\* error and gives no signed transaction.
C19_ZeroChainIdRejected ==
  (txOut.op = "sign" /\ tx.chainId = 0) => txOut.st # "ok"

\* C20: after construction every attribute assignment raises and changes no
\* field, and no method changes a field of the transaction it is called on.
C20_Immutable ==
  [][/\ tx' = tx
     /\ txOut'.op = "setattr" => txOut'.st = "TypeError"]_vars

\* an assignment to the cached tx_id of a signed transaction was refused, and
\* one to a field of an unsigned Celo transaction
C20_Witness ==
  /\ txOut.op = "setattr" /\ txOut.st = "TypeError"
  /\ tx.cls \in {"SignedEthTx", "UnsignedCeloTx"}

\* v is a value of type t as the ABI has it: an integer within the declared
\* width (widths above 24 bits hold every number used here), exactly K bytes
\* for bytesK with 1 <= K <= 32, an address as its 0x-prefixed lower-case
\* hex string, a list of N items for T[N] and of any length for T[].
RECURSIVE Admissible(_, _)
Admissible(t, v) ==
  IF HasBracket(t)
  THEN /\ v.k = "list"
       /\ EndsDynamic(t) \/ Len(v.xs) = _array_length(t)
       /\ \A i \in 1..Len(v.xs) : Admissible(_inner_type(t), v.xs[i])
  ELSE IF t.base = "uint" THEN v.k = "int" /\ v.i >= 0 /\ (t.n <= 24 => v.i < 2 ^ t.n)
  ELSE IF t.base = "int"
  THEN v.k = "int" /\ (t.n <= 24 => (-(2 ^ (t.n - 1)) <= v.i /\ v.i < 2 ^ (t.n - 1)))
  ELSE IF t.base = "bool" THEN v.k = "bool"
  ELSE IF t.base = "address"
  THEN v.k = "str" /\ Len(v.s) = 42 /\ v.s = Hex0x(FromHex(From2(v.s)))
  ELSE IF t.base = "bytes" /\ t.n >= 0
  THEN v.k = "bytes" /\ 1 <= t.n /\ t.n <= 32 /\ Len(v.b) = t.n
  ELSE IF t.base = "bytes" THEN v.k = "bytes"
  ELSE v.k = "str"

WellTyped == \A i \in 1..Len(abiIn.types) : Admissible(abiIn.types[i], abiIn.args[i])

\* C21: for every type list of the supported grammar and every admissible
\* value list, encode_many succeeds and decode_many of its result gives the
\* value list back.
C21_AbiRoundTrip ==
  WellTyped =>
    /\ abiOut.op = "encode_many" => abiOut.st = "ok"
    /\ abiOut.op = "decode_many" => (abiOut.st = "ok" /\ abiOut.val = abiIn.args)

\* The layout of the blob as the ABI has it. A static scalar takes one head
\* slot and no tail; string and bytes of n bytes take one head slot and
\* 1 + ceil(n / 32) tail slots; T[] one head slot and, in the tail, its length
\* word and the slots of its items; T[N] the head and tail slots of its items.
RECURSIVE LayoutSlots(_, _)
LayoutSlots(t, v) ==
  IF ~HasBracket(t)
  THEN IF t.base = "string" THEN <<1, 1 + ((Len(Utf8(v.b)) + SLOT - 1) \div SLOT)>>
       ELSE IF t = Type("bytes", -1) THEN <<1, 1 + ((Len(v.b) + SLOT - 1) \div SLOT)>>
       ELSE <<1, 0>>
  ELSE LET inner == [i \in 1..Len(v.xs) |-> LayoutSlots(_inner_type(t), v.xs[i])]
           heads == SumSeq([i \in 1..Len(inner) |-> inner[i][1]])
           tails == SumSeq([i \in 1..Len(inner) |-> inner[i][2]])
       IN IF EndsDynamic(t) THEN <<1, 1 + heads + tails>> ELSE <<heads, tails>>

\* the items C22 speaks of: scalars, string, bytes, T[N] of static scalars and
\* T[] of scalars, strings or bytes
PlainItem(t) ==
  \/ ~HasBracket(t)
  \/ Len(t.dims) = 1 /\ (EndsDynamic(t) \/ ~_is_dynamic(_inner_type(t)))

Word(n) == to_bytes(n, FALSE).val

\* C22: the blob of encode_many is the head, one slot per static scalar or
\* dynamic item and N per fixed array, then the tail; the head slot of a
\* dynamic item holds (head_size + tail slots of the items before it) * 32; a
\* string or bytes value of n bytes takes 1 + ceil(n / 32) tail slots; and
\* (uint256,uint256[]) with [5, [1, 2, 3]] gives the words 5, 0x40, 3, 1, 2, 3.
C22_HeadTailLayout ==
  (/\ abiOut.op = "encode_many" /\ abiOut.st = "ok" /\ WellTyped
   /\ \A i \in 1..Len(abiIn.types) : PlainItem(abiIn.types[i])) =>
    LET n == Len(abiIn.types)
        slots == [i \in 1..n |-> LayoutSlots(abiIn.types[i], abiIn.args[i])]
        head_size == SumSeq([i \in 1..n |-> slots[i][1]])
        head_pos(i) == SumSeq([j \in 1..(i - 1) |-> slots[j][1]])
        tail_cursor(i) == SumSeq([j \in 1..(i - 1) |-> slots[j][2]])
    IN /\ Len(abiOut.val) = SLOT * (head_size + tail_cursor(n + 1))
       /\ \A i \in 1..n :
            /\ _slots_to_encode(abiIn.types[i], abiIn.args[i]) = Ok(slots[i])
            /\ _is_dynamic(abiIn.types[i]) =>
                 Slice(abiOut.val, head_pos(i) * SLOT, (head_pos(i) + 1) * SLOT)
                   = Word((head_size + tail_cursor(i)) * SLOT)
       /\ abiIn = [types |-> <<UintN(256), ArrayOf(UintN(256), 0)>>,
                   args |-> <<PyInt(5), PyList(<<PyInt(1), PyInt(2), PyInt(3)>>)>>]
            => abiOut.val = Word(5) \o Word(64) \o Word(3) \o Word(1) \o Word(2) \o Word(3)

\* C23: encode as uint<N> rejects a value that is negative or at least 2^N,
\* encode as int<N> one outside [-2^(N-1), 2^(N-1)), and an accepted value is
\* encoded as one 32-byte big-endian word. Widths above 24 bits hold every
\* number used here.
C23_IntegerWidth ==
  (abiOut.op = "encode" /\ abiIn.types[1].base \in {"uint", "int"}
     /\ ~HasBracket(abiIn.types[1])) =>
    LET t == abiIn.types[1]
        v == abiIn.args[1].i
        signed == t.base = "int"
        lo == IF ~signed THEN 0 ELSE IF t.n <= 24 THEN -(2 ^ (t.n - 1)) ELSE v
        hi == IF t.n > 24 THEN v + 1 ELSE IF signed THEN 2 ^ (t.n - 1) ELSE 2 ^ t.n
    IN IF lo <= v /\ v < hi
       THEN /\ abiOut.st = "ok"
            /\ abiOut.val.tail = <<>> /\ Len(abiOut.val.head) = SLOT
            /\ from_bytes(abiOut.val.head, signed) = v
       ELSE abiOut.st # "ok"

\* C24: for every K up to 32 a value of K bytes encodes as bytesK to a single
\* head word, the value followed by zero bytes, and decode gives the value
\* back; bytes33 is rejected.
C24_FixedBytes ==
  (/\ Len(abiIn.types) = 1 /\ abiIn.types[1].base = "bytes" /\ abiIn.types[1].n >= 0
   /\ ~HasBracket(abiIn.types[1]) /\ Len(abiIn.args[1].b) = abiIn.types[1].n) =>
    LET K == abiIn.types[1].n
    IN IF K <= 32
       THEN /\ abiOut.op = "encode" =>
                 /\ abiOut.st = "ok"
                 /\ abiOut.val = HeadTail(abiIn.args[1].b \o Fill(SLOT - K, 0), <<>>)
            /\ abiOut.op = "decode" => (abiOut.st = "ok" /\ abiOut.val = abiIn.args[1])
       ELSE abiOut.op = "encode" => abiOut.st # "ok"

\* C25: every pass of the loop of decode_list, whatever the leading tag byte,
\* takes at least one byte off what remains: a step that appends an item to
\* the output of a decode_list call shortens that call's remaining input, and
\* no call is left with output beyond the bytes it was given.
C25_DecodeTerminates ==
  [][\A k \in 1..Len(rlpFrames) :
       (k <= Len(rlpFrames') /\ rlpFrames'[k].output # rlpFrames[k].output)
         => Len(rlpFrames'[k].remaining) < Len(rlpFrames[k].remaining)]_vars

\* C26: with two sessions open at the same time, a payload read from the
\* connection of session s completes only a request that was issued through
\* s and feeds only a queue of a subscription made through s, also when both
\* sessions have issued the same request id.
C26_SessionsIsolated ==
  [][\A s \in Sess : Handled(s) =>
       /\ \A f \in ChangedFuts :
            \E n \in 1..Len(calls) : calls[n].fut = f /\ calls[n].sess = s
       /\ \A q \in ChangedQueues :
            \E n \in 1..Len(calls) : calls[n].queue = q /\ calls[n].sess = s]_vars


\* C27: the demultiplexer keeps serving after any inbound payload. While a
\* response to a request whose future is still pending waits on an open
\* connection, the task that reads the connection is running, so the response
\* is read and the request completed; this holds whatever was read before it:
\* an error object with no id or an unknown id, a notification under an id
\* that is not registered, a second response to a completed request.
PendingResponse(s, p) ==
  /\ wsOpen[s] /\ "id" \in p.keys /\ "error" \notin p.keys /\ Has(inflight, p.id)
  /\ ~Done(futs[Get(inflight, p.id).fut])

C27_KeepsServing ==
  \A s \in Sess : \A i \in 1..Len(wire[s]) :
    PendingResponse(s, wire[s][i]) => handleTask[s] = "running"


\* C28: no subscription event is lost at registration. For every eth_subscribe
\* that was answered with a subscription id, and that the caller has not asked
\* to end, every notification under that id that the demultiplexer has read is
\* on the queue of the call, also one read before _subscribe resumed.
Unsubscribed(k) ==
  \E m \in 1..Len(calls) : calls[m].kind = "unsubscribe" /\ calls[m].params = <<k>>

C28_NoEventLost ==
  \A n \in 1..Len(calls) :
    (calls[n].kind = "subscribe" /\ futs[calls[n].fut].st = "result") =>
      LET k == futs[calls[n].fut].val[1]
      IN Unsubscribed(k) \/
           \A i \in 1..EventsRead(calls[n].sess, k) :
             CountIn(queues[calls[n].queue], <<k, i>>) > 0


\* C29: across any chain of handovers, what get_pending() gives on the latest
\* session, once it is closed, names each queue at most once among its
\* subscriptions.
Latest(s) == made[s] /\ \A t \in Sess : made[t] => t <= s

C29_QueuesOnce ==
  \A s \in Sess :
    (Latest(s) /\ hasWs[s] /\ ~connected[s] /\ GetPendingResult(s).st = "ok") =>
      \A i, j \in 1..Len(GetPendingResult(s).subs) :
        GetPendingResult(s).subs[i].queue = GetPendingResult(s).subs[j].queue => i = j


\* C30: the close sequence of a session runs at most once, however close() is
\* entered (by the caller, by the demultiplexer at 292, by an _RPC at 408) and
\* however the entries interleave: the socket of a session is closed at most
\* once, and no close() the caller awaits ends with an exception.
SocketClosedOnce == \A s \in Sess : wsCloses[s] <= 1

C30_CloseOnce ==
  SocketClosedOnce /\ \A s \in Sess : callerClose[s] # "raised"

====
